---- MODULE Spec2Model ----
(***************************************************************************)
(* A model of umbi (pmc-tools/umbi): the archive-level reader and writer   *)
(* of umbfiles (umbi/io), the bit-level struct codec (umbi/binary/structs)  *)
(* and the primitive, interval and vector codecs (umbi/binary).            *)
(*                                                                         *)
(* Three specifications share the module:                                  *)
(*   Spec       - a write session (UmbWriter.write_umb) followed by a read *)
(*                session (UmbReader.read_umb) over the archive's members  *)
(*   SpecStruct - StructPacker / StructUnpacker, one field per step        *)
(*   SpecCodec  - the value and vector codecs applied to bounded inputs    *)
(***************************************************************************)
EXTENDS Integers, Sequences, FiniteSets, TLC

VARIABLES
    \* ---- the in-memory model handed to the writer (ExplicitUmb)
    umb,            \* [index, absent, empty]
    \* ---- write session (UmbWriter / TarWriter)
    wpc,            \* position inside write_umb
    wfiles,         \* TarWriter.filename_bytes (member names)
    wsections,      \* section adders that have completed, in order
    storage,        \* the archive on disk: [exists, members]
    nwrites,        \* number of TarWriter.write calls that reached storage
    tampered,       \* the archive was changed after it was written
    \* ---- read session (UmbReader / TarReader)
    strict_mode,    \* UmbReader.strict_mode
    rpc,            \* position inside read_umb
    rphase,         \* "begin" | "run": inside one section reader
    filenames,      \* TarReader.filenames
    filename_read,  \* UmbReader.filename_read
    rindex,         \* umb.index of the model being read
    pending,        \* the read calls the running section reader still makes
    calls,          \* the names passed to UmbReader.read so far
    sections,       \* section readers that have completed, in order
    checked,        \* list_unread_files has run
    warnings,       \* members reported by list_unread_files
    result,         \* "none" | "model" | "error": what read_umb gave back
    raised,         \* class of the exception that left write_umb or read_umb
    \* ---- struct codec session (StructPacker, StructUnpacker)
    sc,
    \* ---- value / vector codec session
    cc,
    \* ---- offsets-vector and bitvector session (csr_to_ranges,
    \* ---- ranges_to_csr, read_bitvector, read_state_files)
    vc,
    \* ---- datatype session (common types, promotion)
    tc

iovars == <<umb, wpc, wfiles, wsections, storage, nwrites, tampered,
            strict_mode, rpc, rphase, filenames, filename_read, rindex,
            pending, calls, sections, checked, warnings, result, raised>>
vars == <<iovars, sc, cc, vc, tc>>

(***************************************************************************)
(* Bounds of the model.                                                    *)
(***************************************************************************)
\* how many features of the in-memory model differ from the plain model
\* (discrete time apart: every time kind is explored)
MaxDeviations == 1

None == "None"

(***************************************************************************)
(* umbi/io/umb.py: member names                                            *)
(***************************************************************************)
INDEX == "index.json"
STATE_IS_INITIAL == "state-is-initial.bin"
STATE_TO_CHOICES == "state-to-choices.bin"
STATE_TO_PLAYER == "state-to-player.bin"
STATE_IS_MARKOVIAN == "state-is-markovian.bin"
STATE_TO_EXIT_RATE == "state-to-exit-rate.bin"
CHOICE_TO_BRANCHES == "choice-to-branches.bin"
BRANCH_TO_TARGET == "branch-to-target.bin"
BRANCH_TO_PROBABILITY == "branch-to-probability.bin"

ActionValues(applies_to) ==
    IF applies_to = "choices" THEN "actions/choices/values.bin"
    ELSE "actions/branches/values.bin"
ActionStrings(applies_to) ==
    IF applies_to = "choices" THEN "actions/choices/strings.bin"
    ELSE "actions/branches/strings.bin"
ActionStringMapping(applies_to) ==
    IF applies_to = "choices" THEN "actions/choices/string-mapping.bin"
    ELSE "actions/branches/string-mapping.bin"

\* the model declares at most one annotation, aps/goal
AnnotationValues(applies_to) ==
    IF applies_to = "states" THEN "annotations/aps/goal/states/values.bin"
    ELSE "annotations/aps/goal/choices/values.bin"
AnnotationStrings(applies_to) ==
    IF applies_to = "states" THEN "annotations/aps/goal/states/strings.bin"
    ELSE "annotations/aps/goal/choices/strings.bin"
AnnotationStringMapping(applies_to) ==
    IF applies_to = "states" THEN "annotations/aps/goal/states/string-mapping.bin"
    ELSE "annotations/aps/goal/choices/string-mapping.bin"

\* the model declares at most one valuation, on states
VALUATIONS == "valuations/states/valuations.bin"
\* observations_apply_to = "states"
OBSERVATIONS == "observations/states/values.bin"
\* a member no section reader knows
UNKNOWN == "unknown.bin"

(***************************************************************************)
(* The in-memory models (ExplicitUmb) the sessions are run on.             *)
(***************************************************************************)
Times == {"discrete", "stochastic", "urgent-stochastic"}

NoAnnotation ==
    [present |-> FALSE, type |-> "bool", applies_to |-> <<"states">>,
     probability_type |-> None]
Annotations ==
    {NoAnnotation} \cup
    [present : {TRUE}, type : {"bool", "string"},
     applies_to : {<<"states">>, <<"states", "choices">>},
     probability_type : {None, "double"}]

NoValuation ==
    [present |-> FALSE, num_strings |-> None, num_classes |-> 1,
     contains_strings |-> FALSE]
Valuations ==
    {NoValuation} \cup
    [present : {TRUE}, num_strings : {None, "1"}, num_classes : {1, 2},
     contains_strings : BOOLEAN]

Indexes ==
    [valid : BOOLEAN,
     time : Times,
     num_players : 0..1,
     num_initial_states : 0..1,
     num_choice_actions : 0..1,
     num_branch_actions : 0..1,
     num_observations : 0..1,
     branch_probability_type : {None, "double"},
     exit_rate_type : {None, "double"},
     observation_probability_type : {None, "double"},
     annotation : Annotations,
     valuation : Valuations]

\* the Optional fields of ExplicitUmb that may be None
DataFields ==
    {"state_to_choices", "state_to_player", "state_is_markovian",
     "state_to_exit_rate", "choice_to_branches", "branch_to_target",
     "branch_to_probability", "choice_to_choice_action",
     "choice_action_to_string", "branch_to_branch_action",
     "branch_action_to_string", "annotations", "valuations",
     "entity_to_observation"}
\* the string lists that may be empty lists
StringFields ==
    {"choice_action_to_string", "branch_action_to_string", "annotations"}

B2N(b) == IF b THEN 1 ELSE 0

IndexDeviations(ix) ==
    B2N(~ix.valid) + ix.num_players + (1 - ix.num_initial_states)
    + ix.num_choice_actions + ix.num_branch_actions + ix.num_observations
    + B2N(ix.branch_probability_type # None) + B2N(ix.exit_rate_type # None)
    + B2N(ix.observation_probability_type # None)
    + B2N(ix.annotation.present) + B2N(ix.valuation.present)

SmallIndexes == {ix \in Indexes : IndexDeviations(ix) <= MaxDeviations}
SmallSets(S) == {a \in SUBSET S : Cardinality(a) <= MaxDeviations}

Umbs ==
    {u \in [index : SmallIndexes, absent : SmallSets(DataFields),
            empty : SmallSets(StringFields)] :
        /\ IndexDeviations(u.index) + Cardinality(u.absent)
             + Cardinality(u.empty) <= MaxDeviations
        /\ u.absent \cap u.empty = {}}

(***************************************************************************)
(* umbi/index: UmbIndex.validate (not part of the sources at hand)         *)
(***************************************************************************)
IndexValidates(ix) == ix.valid

(***************************************************************************)
(* Write session                                                           *)
(***************************************************************************)
Add(name) == [op |-> "add", name |-> name]
\* an exception leaves the section adder; name is its class ("Exception"
\* where the model does not tell the class apart)
Raise == [op |-> "raise", name |-> "Exception"]
RaiseNotImplemented == [op |-> "raise", name |-> "NotImplementedError"]
RaiseAssertion == [op |-> "raise", name |-> "AssertionError"]

HasData(u, f) == f \notin u.absent
IsEmpty(u, f) == f \in u.empty

\* TarEncoder.add_vector
add_vector(name, present, required) ==
    IF ~present THEN (IF required THEN <<Raise>> ELSE <<>>)
    ELSE <<Add(name)>>

\* TarEncoder.add_vector_with_csr / add_strings: the offsets member is added
\* only when vector_to_bytes_with_csr returns offsets (a non-empty vector)
add_strings(name, present, empty, name_csr, required) ==
    IF ~present THEN (IF required THEN <<Raise>> ELSE <<>>)
    ELSE <<Add(name)>> \o (IF empty THEN <<>> ELSE <<Add(name_csr)>>)

\* UmbWriter.add_index_file
add_index_file(u) ==
    IF ~IndexValidates(u.index) THEN <<Raise>> ELSE <<Add(INDEX)>>

\* UmbWriter.add_state_files
add_state_files(u) ==
    add_vector(STATE_IS_INITIAL, TRUE, TRUE)
    \o add_vector(STATE_TO_CHOICES, HasData(u, "state_to_choices"), FALSE)
    \o (IF u.index.num_players > 0
        THEN add_vector(STATE_TO_PLAYER, HasData(u, "state_to_player"), FALSE)
        ELSE <<>>)
    \o (IF u.index.time = "discrete" THEN <<>>
        ELSE IF ~HasData(u, "state_is_markovian") THEN <<RaiseAssertion>>
        ELSE add_vector(STATE_IS_MARKOVIAN, TRUE, FALSE)
             \o (IF u.index.exit_rate_type # None
                 THEN add_vector(STATE_TO_EXIT_RATE,
                                 HasData(u, "state_to_exit_rate"), FALSE)
                 ELSE <<>>))

\* UmbWriter.add_actions
add_actions(u, applies_to) ==
    LET values == IF applies_to = "choices" THEN "choice_to_choice_action"
                  ELSE "branch_to_branch_action"
        strings == IF applies_to = "choices" THEN "choice_action_to_string"
                   ELSE "branch_action_to_string"
    IN (IF HasData(u, values) THEN add_vector(ActionValues(applies_to), TRUE, FALSE)
        ELSE <<>>)
       \o (IF HasData(u, strings)
           THEN add_strings(ActionStrings(applies_to), TRUE, IsEmpty(u, strings),
                            ActionStringMapping(applies_to), FALSE)
           ELSE <<>>)

\* UmbWriter.add_transition_files
add_transition_files(u) ==
    add_vector(CHOICE_TO_BRANCHES, HasData(u, "choice_to_branches"), FALSE)
    \o add_vector(BRANCH_TO_TARGET, HasData(u, "branch_to_target"), FALSE)
    \o (IF u.index.branch_probability_type # None
        THEN add_vector(BRANCH_TO_PROBABILITY,
                        HasData(u, "branch_to_probability"), FALSE)
        ELSE <<>>)
    \o (IF u.index.num_choice_actions > 0 THEN add_actions(u, "choices") ELSE <<>>)
    \o (IF u.index.num_branch_actions > 0 THEN add_actions(u, "branches") ELSE <<>>)

\* UmbWriter.add_annotation: one vector per entity class of applies_to
RECURSIVE add_annotation(_, _, _)
add_annotation(u, a, i) ==
    IF i > Len(a.applies_to) THEN <<>>
    ELSE (IF a.type # "string"
          THEN add_vector(AnnotationValues(a.applies_to[i]), TRUE, TRUE)
          ELSE add_strings(AnnotationStrings(a.applies_to[i]), TRUE,
                           IsEmpty(u, "annotations"),
                           AnnotationStringMapping(a.applies_to[i]), TRUE))
         \o add_annotation(u, a, i + 1)

\* UmbWriter.add_annotation_files
add_annotation_files(u) ==
    IF ~u.index.annotation.present THEN <<>>
    ELSE IF ~HasData(u, "annotations") THEN <<RaiseAssertion>>
    ELSE add_annotation(u, u.index.annotation, 1)

\* UmbWriter.add_valuation_files / add_valuation_description
add_valuation_files(u) ==
    LET v == u.index.valuation
    IN IF ~v.present THEN <<>>
       ELSE IF v.num_strings # None THEN <<RaiseNotImplemented>>
       ELSE IF v.num_classes # 1 THEN <<RaiseNotImplemented>>
       ELSE IF v.contains_strings THEN <<RaiseAssertion>>
       ELSE IF ~HasData(u, "valuations") THEN <<RaiseAssertion>>
       ELSE <<Add(VALUATIONS)>>

\* UmbWriter.add_observation_files
add_observation_files(u) ==
    IF u.index.num_observations = 0 THEN <<>>
    ELSE IF u.index.observation_probability_type # None
         THEN <<RaiseNotImplemented>>
    ELSE IF ~HasData(u, "entity_to_observation") THEN <<RaiseAssertion>>
    ELSE add_vector(OBSERVATIONS, TRUE, TRUE)

\* TarWriter.add, call by call, up to the first exception
RECURSIVE RunAdds(_, _)
RunAdds(files, plan) ==
    IF plan = <<>> THEN [files |-> files, ok |-> TRUE, error |-> ""]
    ELSE IF Head(plan).op = "raise"
         THEN [files |-> files, ok |-> FALSE, error |-> Head(plan).name]
    ELSE RunAdds(files \cup {Head(plan).name}, Tail(plan))

WriteOrder ==
    <<"index", "state", "transition", "annotation", "valuation", "observation">>

\* UmbWriter.write_umb: the step that follows a section adder
WriteNextMutant(sec) ==
    CASE sec = "index" -> "state"
      [] sec = "state" -> "transition"
      [] sec = "transition" -> "annotation"
      [] sec = "annotation" -> "write"
      [] sec = "valuation" -> "observation"
      [] OTHER -> "write"
WriteNext(sec) ==
    CASE sec = "index" -> "state"
      [] sec = "state" -> "transition"
      [] sec = "transition" -> "annotation"
      [] sec = "annotation" -> "valuation"
      [] sec = "valuation" -> "observation"
      [] OTHER -> "write"

WriterSection(sec, plan) ==
    /\ wpc = sec
    /\ LET r == RunAdds(wfiles, plan)
       IN /\ wfiles' = r.files
          /\ IF r.ok
             THEN /\ wpc' = WriteNext(sec)
                  /\ wsections' = Append(wsections, sec)
             ELSE /\ wpc' = "failed"
                  /\ wsections' = wsections
          /\ raised' = r.error
    /\ UNCHANGED <<umb, storage, nwrites, tampered, strict_mode, rpc, rphase,
                   filenames, filename_read, rindex, pending, calls, sections,
                   checked, warnings, result, sc, cc, vc, tc>>

AddIndexFile == WriterSection("index", add_index_file(umb))
AddStateFiles == WriterSection("state", add_state_files(umb))
AddTransitionFiles == WriterSection("transition", add_transition_files(umb))
AddAnnotationFiles == WriterSection("annotation", add_annotation_files(umb))
AddValuationFiles == WriterSection("valuation", add_valuation_files(umb))
AddObservationFiles == WriterSection("observation", add_observation_files(umb))

\* TarWriter.write / tar_write: every added member goes to the archive
Write ==
    /\ wpc = "write"
    /\ storage' = [exists |-> TRUE, members |-> wfiles]
    /\ nwrites' = nwrites + 1
    /\ wpc' = "done"
    /\ UNCHANGED <<umb, wfiles, wsections, tampered, strict_mode, rpc, rphase,
                   filenames, filename_read, rindex, pending, calls, sections,
                   checked, warnings, result, sc, cc, vc, tc, raised>>

(***************************************************************************)
(* The archive between the sessions: another tool may have added a member  *)
(* this reader does not know, or a member may be missing.                  *)
(***************************************************************************)
AddUnknownMember ==
    /\ wpc = "done" /\ rpc = "closed" /\ ~tampered
    /\ storage' = [storage EXCEPT !.members = @ \cup {UNKNOWN}]
    /\ tampered' = TRUE
    /\ UNCHANGED <<umb, wpc, wfiles, wsections, nwrites, strict_mode, rpc,
                   rphase, filenames, filename_read, rindex, pending, calls,
                   sections, checked, warnings, result, sc, cc, vc, tc, raised>>

RemoveMember ==
    /\ wpc = "done" /\ rpc = "closed" /\ ~tampered
    /\ \E n \in storage.members :
          storage' = [storage EXCEPT !.members = @ \ {n}]
    /\ tampered' = TRUE
    /\ UNCHANGED <<umb, wpc, wfiles, wsections, nwrites, strict_mode, rpc,
                   rphase, filenames, filename_read, rindex, pending, calls,
                   sections, checked, warnings, result, sc, cc, vc, tc, raised>>

(***************************************************************************)
(* Read session                                                            *)
(***************************************************************************)
Read(name, required) == [op |-> "read", name |-> name, required |-> required]
RaiseR == [op |-> "raise", name |-> "Exception", required |-> FALSE]
RaiseRNotImplemented ==
    [op |-> "raise", name |-> "NotImplementedError", required |-> FALSE]
RaiseRAssertion ==
    [op |-> "raise", name |-> "AssertionError", required |-> FALSE]

\* UmbReader.read: mark the member as read (the lookup itself is TarReader's)
UmbReader_read_Mutant(fr, fn, name) ==
    IF name \in fn THEN [f \in DOMAIN fr |-> f = name] ELSE fr
UmbReader_read(fr, fn, name) ==
    IF name \in fn THEN [fr EXCEPT ![name] = TRUE] ELSE fr

\* TarReader.read: the member's bytes, None, or KeyError
TarReader_read(fn, name, required) ==
    IF name \notin fn THEN (IF ~required THEN "None" ELSE "KeyError")
    ELSE "bytes"

\* TarDecoder.read_vector_with_csr / read_strings: the offsets member is read
\* whenever the payload member gave bytes
read_strings(fn, name, required, name_csr) ==
    IF name \in fn THEN <<Read(name, required), Read(name_csr, TRUE)>>
    ELSE <<Read(name, required)>>

\* UmbReader.read_index_file
read_index_file == <<Read(INDEX, TRUE)>>

\* UmbReader.read_state_files
read_state_files(ix, fn) ==
    (IF ix.num_initial_states = 0 THEN <<>>
     ELSE <<Read(STATE_IS_INITIAL, TRUE)>>)
    \o <<Read(STATE_TO_CHOICES, FALSE)>>
    \o (IF ix.num_players > 0 THEN <<Read(STATE_TO_PLAYER, FALSE)>> ELSE <<>>)
    \o (IF ix.time = "discrete" THEN <<>>
        ELSE IF STATE_IS_MARKOVIAN \in fn
             THEN <<Read(STATE_IS_MARKOVIAN, TRUE)>> ELSE <<>>)
    \o (IF ix.time = "stochastic" /\ ix.exit_rate_type # None
           /\ STATE_TO_EXIT_RATE \in fn
        THEN <<Read(STATE_TO_EXIT_RATE, TRUE)>> ELSE <<>>)

\* UmbReader.read_actions
read_actions(fn, applies_to) ==
    (IF ActionValues(applies_to) \notin fn THEN <<>>
     ELSE <<Read(ActionValues(applies_to), FALSE)>>)
    \o (IF ActionStringMapping(applies_to) \in fn
        THEN read_strings(fn, ActionStrings(applies_to), TRUE,
                          ActionStringMapping(applies_to))
        ELSE <<>>)

\* UmbReader.read_transition_files
read_transition_files(ix, fn) ==
    <<Read(CHOICE_TO_BRANCHES, FALSE), Read(BRANCH_TO_TARGET, FALSE)>>
    \o (IF ix.branch_probability_type # None
        THEN <<Read(BRANCH_TO_PROBABILITY, TRUE)>> ELSE <<>>)
    \o (IF ix.num_choice_actions > 0 THEN read_actions(fn, "choices") ELSE <<>>)
    \o (IF ix.num_branch_actions > 0 THEN read_actions(fn, "branches") ELSE <<>>)

\* UmbReader.read_annotation: one vector per entity class of applies_to
RECURSIVE read_annotation_vectors(_, _, _)
read_annotation_vectors(a, fn, i) ==
    IF i > Len(a.applies_to) THEN <<>>
    ELSE (IF a.type # "string"
          THEN <<Read(AnnotationValues(a.applies_to[i]), TRUE)>>
          ELSE read_strings(fn, AnnotationStrings(a.applies_to[i]), TRUE,
                            AnnotationStringMapping(a.applies_to[i])))
         \o read_annotation_vectors(a, fn, i + 1)

read_annotation(a, fn) ==
    IF a.probability_type # None THEN <<RaiseRNotImplemented>>
    ELSE read_annotation_vectors(a, fn, 1)

\* UmbReader.read_annotation_files
read_annotation_files(ix, fn) ==
    IF ~ix.annotation.present THEN <<>> ELSE read_annotation(ix.annotation, fn)

\* UmbReader.read_valuation_files / read_valuation_description
read_valuation_files(ix) ==
    LET v == ix.valuation
    IN IF ~v.present THEN <<>>
       ELSE IF v.num_strings # None THEN <<RaiseRNotImplemented>>
       ELSE IF v.num_classes # 1 THEN <<RaiseRNotImplemented>>
       ELSE IF v.contains_strings THEN <<RaiseRAssertion>>
       ELSE <<Read(VALUATIONS, TRUE)>>

\* UmbReader.read_observation_files
read_observation_files(ix) ==
    IF ix.num_observations = 0 THEN <<>>
    ELSE IF ix.observation_probability_type # None
         THEN <<RaiseRNotImplemented>>
    ELSE <<Read(OBSERVATIONS, TRUE)>>

ReadOrder ==
    <<"index", "state", "transition", "annotation", "valuation", "observation">>

\* UmbReader.read_umb: the step that follows a section reader
ReadNextMutant(sec) ==
    CASE sec = "index" -> "state"
      [] sec = "state" -> "transition"
      [] sec = "transition" -> "valuation"
      [] sec = "valuation" -> "annotation"
      [] sec = "annotation" -> "observation"
      [] OTHER -> "unread"
ReadNext(sec) ==
    CASE sec = "index" -> "state"
      [] sec = "state" -> "transition"
      [] sec = "transition" -> "annotation"
      [] sec = "annotation" -> "valuation"
      [] sec = "valuation" -> "observation"
      [] OTHER -> "unread"

\* UmbIndex(): the index of a fresh ExplicitUmb
BlankIndex ==
    [valid |-> TRUE, time |-> "discrete", num_players |-> 0,
     num_initial_states |-> 0, num_choice_actions |-> 0,
     num_branch_actions |-> 0, num_observations |-> 0,
     branch_probability_type |-> None, exit_rate_type |-> None,
     observation_probability_type |-> None, annotation |-> NoAnnotation,
     valuation |-> NoValuation]

\* UmbReader.__init__ (TarReader.load_tar): one table entry per member
OpenReader ==
    /\ wpc = "done" /\ storage.exists /\ rpc = "closed"
    /\ \E s \in BOOLEAN : strict_mode' = s
    /\ filenames' = storage.members
    /\ filename_read' = [f \in storage.members |-> FALSE]
    /\ rpc' = "index"
    /\ rphase' = "begin"
    /\ UNCHANGED <<umb, wpc, wfiles, wsections, storage, nwrites, tampered,
                   rindex, pending, calls, sections, checked, warnings, result,
                   sc, cc, vc, tc, raised>>

\* a section reader returns: read_umb goes on to its next call
SectionReturns(sec) ==
    /\ sections' = Append(sections, sec)
    /\ rpc' = ReadNext(sec)
    /\ rphase' = "begin"
    /\ rindex' = IF sec = "index" THEN umb.index ELSE rindex
    /\ result' = result

\* an exception leaves read_umb
ReaderFails ==
    /\ rpc' = "failed"
    /\ rphase' = "begin"
    /\ result' = "error"
    /\ UNCHANGED <<sections, rindex>>

ReaderSection(sec, plan) ==
    /\ rpc = sec /\ rphase = "begin"
    /\ IF plan = <<>>
       THEN pending' = <<>> /\ SectionReturns(sec)
       ELSE /\ pending' = plan
            /\ rphase' = "run"
            /\ UNCHANGED <<rpc, sections, rindex, result>>
    /\ UNCHANGED <<umb, wpc, wfiles, wsections, storage, nwrites, tampered,
                   strict_mode, filenames, filename_read, calls, checked,
                   warnings, sc, cc, vc, tc, raised>>

ReadIndexFile == ReaderSection("index", read_index_file)
ReadStateFiles == ReaderSection("state", read_state_files(rindex, filenames))
ReadTransitionFiles ==
    ReaderSection("transition", read_transition_files(rindex, filenames))
ReadAnnotationFiles ==
    ReaderSection("annotation", read_annotation_files(rindex, filenames))
ReadValuationFiles == ReaderSection("valuation", read_valuation_files(rindex))
ReadObservationFiles ==
    ReaderSection("observation", read_observation_files(rindex))

\* the running section reader raises NotImplementedError
ReaderRaises ==
    /\ rphase = "run" /\ pending # <<>> /\ Head(pending).op = "raise"
    /\ pending' = <<>>
    /\ raised' = Head(pending).name
    /\ ReaderFails
    /\ UNCHANGED <<umb, wpc, wfiles, wsections, storage, nwrites, tampered,
                   strict_mode, filenames, filename_read, calls, checked,
                   warnings, sc, cc, vc, tc>>

\* the running section reader calls UmbReader.read(name, required)
ReaderReads ==
    /\ rphase = "run" /\ pending # <<>> /\ Head(pending).op = "read"
    /\ LET c == Head(pending)
       IN /\ calls' = Append(calls, c.name)
          /\ filename_read' = UmbReader_read(filename_read, filenames, c.name)
          /\ IF TarReader_read(filenames, c.name, c.required) = "KeyError"
             THEN pending' = <<>> /\ raised' = "KeyError" /\ ReaderFails
             ELSE /\ pending' = Tail(pending)
                  /\ raised' = raised
                  /\ IF Tail(pending) = <<>>
                     THEN SectionReturns(rpc)
                     ELSE UNCHANGED <<rpc, rphase, sections, rindex, result>>
    /\ UNCHANGED <<umb, wpc, wfiles, wsections, storage, nwrites, tampered,
                   strict_mode, filenames, checked, warnings, sc, cc, vc, tc>>

\* UmbReader.list_unread_files
unread_files(fr) == {f \in DOMAIN fr : ~fr[f]}
list_unread_raises_Mutant(strict, unread) == unread # {}
list_unread_raises(strict, unread) == strict /\ Cardinality(unread) > 0

ListUnreadFiles ==
    /\ rpc = "unread"
    /\ checked' = TRUE
    /\ warnings' = unread_files(filename_read)
    /\ IF list_unread_raises(strict_mode, unread_files(filename_read))
       THEN rpc' = "failed" /\ result' = "error" /\ raised' = "ValueError"
       ELSE rpc' = "done" /\ result' = "model" /\ raised' = raised
    /\ UNCHANGED <<umb, wpc, wfiles, wsections, storage, nwrites, tampered,
                   strict_mode, rphase, filenames, filename_read, rindex,
                   pending, calls, sections, sc, cc, vc, tc>>

(***************************************************************************)
(* Spec: a write session, then a read session of the archive it left.      *)
(***************************************************************************)
Init ==
    /\ umb \in Umbs
    /\ wpc = "index"
    /\ wfiles = {}
    /\ wsections = <<>>
    /\ storage = [exists |-> FALSE, members |-> {}]
    /\ nwrites = 0
    /\ tampered = FALSE
    /\ strict_mode = FALSE
    /\ rpc = "closed"
    /\ rphase = "begin"
    /\ filenames = {}
    /\ filename_read = <<>>
    /\ rindex = BlankIndex
    /\ pending = <<>>
    /\ calls = <<>>
    /\ sections = <<>>
    /\ checked = FALSE
    /\ warnings = {}
    /\ result = "none"
    /\ raised = ""
    /\ sc = <<>>
    /\ cc = <<>>
    /\ vc = <<>>
    /\ tc = <<>>

Next ==
    \/ AddIndexFile
    \/ AddStateFiles
    \/ AddTransitionFiles
    \/ AddAnnotationFiles
    \/ AddValuationFiles
    \/ AddObservationFiles
    \/ Write
    \/ AddUnknownMember
    \/ RemoveMember
    \/ OpenReader
    \/ ReadIndexFile
    \/ ReadStateFiles
    \/ ReadTransitionFiles
    \/ ReadAnnotationFiles
    \/ ReadValuationFiles
    \/ ReadObservationFiles
    \/ ReaderRaises
    \/ ReaderReads
    \/ ListUnreadFiles

Spec == Init /\ [][Next]_vars

(***************************************************************************)
(* SpecArchive: as Spec, and also read sessions of an archive that another *)
(* writer of the format left for the model: it holds every member the      *)
(* sections of the model call for, the valuations of a layout this writer  *)
(* refuses included.                                                       *)
(***************************************************************************)
AddedNames(plan) == {plan[i].name : i \in {j \in 1..Len(plan) : plan[j].op = "add"}}

ForeignMembers(u) ==
    AddedNames(add_index_file(u) \o add_state_files(u)
               \o add_transition_files(u) \o add_annotation_files(u)
               \o add_observation_files(u))
    \cup {INDEX}
    \cup (IF u.index.valuation.present THEN {VALUATIONS} ELSE {})

InitForeign ==
    /\ umb \in Umbs
    /\ wpc = "done"
    /\ wfiles = {}
    /\ wsections = <<>>
    /\ storage = [exists |-> TRUE, members |-> ForeignMembers(umb)]
    /\ nwrites = 0
    /\ tampered = TRUE
    /\ strict_mode = FALSE
    /\ rpc = "closed"
    /\ rphase = "begin"
    /\ filenames = {}
    /\ filename_read = <<>>
    /\ rindex = BlankIndex
    /\ pending = <<>>
    /\ calls = <<>>
    /\ sections = <<>>
    /\ checked = FALSE
    /\ warnings = {}
    /\ result = "none"
    /\ raised = ""
    /\ sc = <<>>
    /\ cc = <<>>
    /\ vc = <<>>
    /\ tc = <<>>

InitArchive == Init \/ InitForeign

SpecArchive == InitArchive /\ [][Next]_vars

(***************************************************************************)
(* Bit strings (bitstring.BitArray): a sequence of 0/1, most significant   *)
(* bit first.                                                              *)
(***************************************************************************)
RECURSIVE Pow2(_)
Pow2(n) == IF n <= 0 THEN 1 ELSE 2 * Pow2(n - 1)

\* BitArray(uint=v, length=n)
UintToBits(v, n) == [i \in 1..n |-> (v \div Pow2(n - i)) % 2]
\* BitArray(int=v, length=n): two's complement
IntToBits(v, n) == UintToBits(v % Pow2(n), n)
\* bits.uint
RECURSIVE BitsToUint(_)
BitsToUint(bits) ==
    IF bits = <<>> THEN 0
    ELSE 2 * BitsToUint(SubSeq(bits, 1, Len(bits) - 1)) + bits[Len(bits)]
\* bits.int
BitsToInt(bits) ==
    IF bits[1] = 1 THEN BitsToUint(bits) - Pow2(Len(bits)) ELSE BitsToUint(bits)
\* bits[-n:] and bits[:-n] for 0 < n <= len(bits)
LastBits(bits, n) == SubSeq(bits, Len(bits) - n + 1, Len(bits))
DropLastBits(bits, n) == SubSeq(bits, 1, Len(bits) - n)
Zeros(n) == [i \in 1..n |-> 0]

(***************************************************************************)
(* umbi/binary/integers.py                                                 *)
(***************************************************************************)
\* every integer of the model lies strictly between -2^ModelBits and
\* 2^ModelBits; a decoded integer outside is kept at the nearest end
ModelBits == 20
Saturate(x) ==
    IF x > Pow2(ModelBits) THEN Pow2(ModelBits)
    ELSE IF x < -Pow2(ModelBits) THEN -Pow2(ModelBits) ELSE x

\* assert_integer_fits; beyond ModelBits + 1 bits the bounds 2^(num_bits - 1)
\* and 2^num_bits lie outside every integer of the model
IntegerFits(value, signed, num_bits) ==
    LET wide == num_bits > ModelBits + 1
    IN IF signed
       THEN wide \/ (-Pow2(num_bits - 1) <= value
                      /\ value <= Pow2(num_bits - 1) - 1)
       ELSE 0 <= value /\ (wide \/ value <= Pow2(num_bits) - 1)

\* integer_to_bits
integer_to_bits(value, num_bits, signed) ==
    IF ~IntegerFits(value, signed, num_bits) THEN [ok |-> FALSE, bits |-> <<>>]
    ELSE [ok |-> TRUE,
          bits |-> IF signed THEN IntToBits(value, num_bits)
                   ELSE UintToBits(value, num_bits)]

\* bits_to_integer: a zero-length bit string has no integer interpretation
bits_to_integer(bits, signed) ==
    IF bits = <<>> THEN [ok |-> FALSE, v |-> 0]
    ELSE [ok |-> TRUE, v |-> IF signed THEN BitsToInt(bits) ELSE BitsToUint(bits)]

(***************************************************************************)
(* umbi/datatypes/struct.py: struct types with integer attributes          *)
(***************************************************************************)
\* how many fields a struct type has at most
MaxFields == 2
\* how many bytes an input that no packer produced has at most
MaxInputBytes == 2

StructPadding(n) ==
    [kind |-> "padding", size |-> n, type |-> "uint", is_optional |-> FALSE]
StructAttribute(type, size, is_optional) ==
    [kind |-> "attribute", size |-> size, type |-> type,
     is_optional |-> is_optional]

NoneValue == [none |-> TRUE, v |-> 0]
Value(v) == [none |-> FALSE, v |-> v]

\* StructPadding.size_bits / StructAttribute.size_bits
FieldSizeBits(f) ==
    IF f.kind = "padding" THEN f.size
    ELSE f.size + (IF f.is_optional THEN 1 ELSE 0)

\* StructType.size_bits
RECURSIVE StructSizeBits(_)
StructSizeBits(t) ==
    IF t = <<>> THEN 0 ELSE FieldSizeBits(Head(t)) + StructSizeBits(Tail(t))
\* StructType.is_byte_aligned
StructIsByteAligned(t) == StructSizeBits(t) % 8 = 0

\* the fields, each with the value it is packed with
PaddingSizes == {1, 7}
AttributeSizedTypes ==
    {[type |-> "uint", size |-> 8], [type |-> "uint", size |-> 7],
     [type |-> "int", size |-> 4]}
SampleValues(st) ==
    IF st.type = "uint" THEN {Value(5), Value(Pow2(st.size) - 2)}
    ELSE {Value(-3), Value(Pow2(st.size - 1) - 1)}
FieldInstances ==
    {[field |-> StructPadding(n), value |-> NoneValue] : n \in PaddingSizes}
    \cup UNION {
        {[field |-> StructAttribute(st.type, st.size, FALSE), value |-> v] :
            v \in SampleValues(st)}
        \cup {[field |-> StructAttribute(st.type, st.size, TRUE), value |-> v] :
            v \in SampleValues(st) \cup {NoneValue}}
        : st \in AttributeSizedTypes}
Layouts == UNION {[1..n -> FieldInstances] : n \in 1..MaxFields}

(***************************************************************************)
(* umbi/binary/structs.py: StructPacker                                    *)
(***************************************************************************)
\* StructPacker.flush_buffer: whole bytes leave the buffer, oldest bits first
RECURSIVE flush_buffer(_, _)
flush_buffer(buffer, bytestring) ==
    IF Len(buffer) >= 8
    THEN flush_buffer(DropLastBits(buffer, 8),
                      Append(bytestring, BitsToUint(LastBits(buffer, 8))))
    ELSE [buffer |-> buffer, bytestring |-> bytestring]

append_to_buffer_Mutant(buffer, bytestring, bits) ==
    [buffer |-> bits \o buffer, bytestring |-> bytestring]

\* StructPacker.append_to_buffer: new bits go to the most significant side
append_to_buffer(buffer, bytestring, bits) ==
    flush_buffer(bits \o buffer, bytestring)

\* StructPacker.pack_attribute: the bits it hands to append_to_buffer
\* ([ok |-> FALSE] when it raises, [skip |-> TRUE] when it returns early)
pack_attribute_bits(f, value) ==
    LET signed == f.type = "int"
        enc == integer_to_bits(IF value.none THEN 0 ELSE value.v, f.size, signed)
        bits == IF value.none THEN enc.bits \o <<0>>
                ELSE IF f.is_optional THEN enc.bits \o <<1>>
                ELSE enc.bits
    IN IF value.none /\ ~f.is_optional
       THEN [ok |-> FALSE, skip |-> FALSE, bits |-> <<>>]
       ELSE IF ~enc.ok THEN [ok |-> FALSE, skip |-> FALSE, bits |-> <<>>]
       ELSE IF f.is_optional
            THEN (IF bits[Len(bits)] = 0
                  THEN [ok |-> TRUE, skip |-> TRUE, bits |-> <<>>]
                  ELSE [ok |-> TRUE, skip |-> FALSE,
                        bits |-> DropLastBits(bits, 1)])
            ELSE [ok |-> TRUE, skip |-> FALSE, bits |-> bits]

InitPacker(layout) ==
    [type |-> [i \in 1..Len(layout) |-> layout[i].field],
     values |-> [i \in 1..Len(layout) |-> layout[i].value],
     ppc |-> "pack", pi |-> 1, pbuffer |-> <<>>, pbytes |-> <<>>,
     pappended |-> 0,
     upc |-> "idle", own |-> FALSE, input |-> <<>>, ubytes |-> <<>>,
     ubuffer |-> <<>>, ui |-> 1, urecord |-> <<>>, uextracted |-> 0]

\* StructPacker.add_padding
AddPadding ==
    /\ sc.ppc = "pack" /\ sc.pi <= Len(sc.type)
    /\ sc.type[sc.pi].kind = "padding"
    /\ LET bits == Zeros(sc.type[sc.pi].size)
           r == append_to_buffer(sc.pbuffer, sc.pbytes, bits)
       IN sc' = [sc EXCEPT !.pbuffer = r.buffer, !.pbytes = r.bytestring,
                           !.pappended = @ + Len(bits), !.pi = @ + 1]
    /\ UNCHANGED <<iovars, cc, vc, tc>>

\* StructPacker.pack_attribute
PackAttribute ==
    /\ sc.ppc = "pack" /\ sc.pi <= Len(sc.type)
    /\ sc.type[sc.pi].kind = "attribute"
    /\ LET p == pack_attribute_bits(sc.type[sc.pi], sc.values[sc.pi])
           r == append_to_buffer(sc.pbuffer, sc.pbytes, p.bits)
       IN IF ~p.ok THEN sc' = [sc EXCEPT !.ppc = "error"]
          ELSE IF p.skip THEN sc' = [sc EXCEPT !.pi = @ + 1]
          ELSE sc' = [sc EXCEPT !.pbuffer = r.buffer, !.pbytes = r.bytestring,
                                !.pappended = @ + Len(p.bits), !.pi = @ + 1]
    /\ UNCHANGED <<iovars, cc, vc, tc>>

\* StructPacker.pack_struct, after the last field: assert_buffer_empty
PackReturn ==
    /\ sc.ppc = "pack" /\ sc.pi > Len(sc.type)
    /\ sc' = [sc EXCEPT !.ppc = IF Len(sc.pbuffer) > 0 THEN "error" ELSE "packed"]
    /\ UNCHANGED <<iovars, cc, vc, tc>>

(***************************************************************************)
(* umbi/binary/structs.py: StructUnpacker                                  *)
(***************************************************************************)
\* StructUnpacker.align_buffer: whole bytes enter the buffer, each on the
\* most significant side
RECURSIVE feed_bytes(_, _, _)
feed_bytes(buffer, bytestring, n) ==
    IF n = 0 THEN [buffer |-> buffer, bytestring |-> bytestring]
    ELSE feed_bytes(UintToBits(Head(bytestring), 8) \o buffer,
                    Tail(bytestring), n - 1)

align_buffer(buffer, bytestring, num_bits) ==
    IF Len(buffer) >= num_bits
    THEN [ok |-> TRUE, buffer |-> buffer, bytestring |-> bytestring]
    ELSE LET num_bytes_needed == (num_bits - Len(buffer) + 7) \div 8
         IN IF Len(bytestring) < num_bytes_needed
            THEN [ok |-> FALSE, buffer |-> buffer, bytestring |-> bytestring]
            ELSE LET r == feed_bytes(buffer, bytestring, num_bytes_needed)
                 IN [ok |-> TRUE, buffer |-> r.buffer,
                     bytestring |-> r.bytestring]

\* StructUnpacker.extract_from_buffer (num_bits > 0)
extract_from_buffer(buffer, bytestring, num_bits) ==
    LET a == align_buffer(buffer, bytestring, num_bits)
    IN IF ~a.ok THEN [ok |-> FALSE, bits |-> <<>>, buffer |-> a.buffer,
                      bytestring |-> a.bytestring]
       ELSE [ok |-> TRUE, bits |-> LastBits(a.buffer, num_bits),
             buffer |-> DropLastBits(a.buffer, num_bits),
             bytestring |-> a.bytestring]

\* StructUnpacker.unpack_attribute, on the bits extracted for the field
unpack_attribute_value(f, bits) ==
    LET signed == f.type = "int"
    IN IF f.is_optional
       THEN (IF bits[Len(bits)] = 0 THEN [ok |-> TRUE, value |-> NoneValue]
             ELSE LET d == bits_to_integer(DropLastBits(bits, 1), signed)
                  IN [ok |-> d.ok, value |-> Value(d.v)])
       ELSE LET d == bits_to_integer(bits, signed)
            IN [ok |-> d.ok, value |-> Value(d.v)]

\* the bytestrings struct_unpack is called on
ByteSamples == {0, 165}
ForeignInputs(packed, pbytes) ==
    {[i \in 1..n |-> b] : n \in 0..MaxInputBytes, b \in ByteSamples}
    \cup (IF packed THEN {Append(pbytes, 0)} ELSE {})

\* struct_unpack(bytestring, value_type) on what struct_pack returned
StructUnpack ==
    /\ sc.ppc = "packed" /\ sc.upc = "idle"
    /\ sc' = [sc EXCEPT !.upc = "unpack", !.own = TRUE, !.input = sc.pbytes,
                        !.ubytes = sc.pbytes]
    /\ UNCHANGED <<iovars, cc, vc, tc>>

\* struct_unpack(bytestring, value_type) on some other bytestring
StructUnpackForeign ==
    /\ sc.ppc \in {"packed", "error"} /\ sc.upc = "idle"
    /\ \E b \in ForeignInputs(sc.ppc = "packed", sc.pbytes) :
          sc' = [sc EXCEPT !.upc = "unpack", !.own = FALSE, !.input = b,
                           !.ubytes = b]
    /\ UNCHANGED <<iovars, cc, vc, tc>>

\* StructUnpacker.skip_padding
SkipPadding ==
    /\ sc.upc = "unpack" /\ sc.ui <= Len(sc.type)
    /\ sc.type[sc.ui].kind = "padding"
    /\ LET e == extract_from_buffer(sc.ubuffer, sc.ubytes, sc.type[sc.ui].size)
       IN IF ~e.ok THEN sc' = [sc EXCEPT !.upc = "error"]
          ELSE sc' = [sc EXCEPT !.ubuffer = e.buffer, !.ubytes = e.bytestring,
                                !.uextracted = @ + Len(e.bits), !.ui = @ + 1,
                                !.urecord = Append(@, NoneValue)]
    /\ UNCHANGED <<iovars, cc, vc, tc>>

\* StructUnpacker.unpack_attribute
UnpackAttribute ==
    /\ sc.upc = "unpack" /\ sc.ui <= Len(sc.type)
    /\ sc.type[sc.ui].kind = "attribute"
    /\ LET e == extract_from_buffer(sc.ubuffer, sc.ubytes, sc.type[sc.ui].size)
           u == unpack_attribute_value(sc.type[sc.ui], e.bits)
       IN IF ~e.ok THEN sc' = [sc EXCEPT !.upc = "error"]
          ELSE IF ~u.ok
               THEN sc' = [sc EXCEPT !.upc = "error", !.ubuffer = e.buffer,
                                     !.ubytes = e.bytestring,
                                     !.uextracted = @ + Len(e.bits)]
               ELSE sc' = [sc EXCEPT !.ubuffer = e.buffer,
                                     !.ubytes = e.bytestring,
                                     !.uextracted = @ + Len(e.bits),
                                     !.ui = @ + 1,
                                     !.urecord = Append(@, u.value)]
    /\ UNCHANGED <<iovars, cc, vc, tc>>

\* StructUnpacker.assert_buffer_empty
unpacker_buffer_empty(buffer, bytestring) == Len(buffer) = 0

\* StructUnpacker.unpack_struct, after the last field
UnpackReturn ==
    /\ sc.upc = "unpack" /\ sc.ui > Len(sc.type)
    /\ sc' = [sc EXCEPT !.upc = IF unpacker_buffer_empty(sc.ubuffer, sc.ubytes)
                                THEN "unpacked" ELSE "error"]
    /\ UNCHANGED <<iovars, cc, vc, tc>>

(***************************************************************************)
(* SpecStruct: struct_pack of one record, then struct_unpack of a          *)
(* bytestring.                                                             *)
(***************************************************************************)
IoIdle ==
    /\ umb = [index |-> BlankIndex, absent |-> {}, empty |-> {}]
    /\ wpc = "index"
    /\ wfiles = {}
    /\ wsections = <<>>
    /\ storage = [exists |-> FALSE, members |-> {}]
    /\ nwrites = 0
    /\ tampered = FALSE
    /\ strict_mode = FALSE
    /\ rpc = "closed"
    /\ rphase = "begin"
    /\ filenames = {}
    /\ filename_read = <<>>
    /\ rindex = BlankIndex
    /\ pending = <<>>
    /\ calls = <<>>
    /\ sections = <<>>
    /\ checked = FALSE
    /\ warnings = {}
    /\ result = "none"
    /\ raised = ""

InitStruct ==
    /\ IoIdle
    /\ sc \in {InitPacker(l) : l \in Layouts}
    /\ cc = <<>>
    /\ vc = <<>>
    /\ tc = <<>>

NextStruct ==
    \/ AddPadding
    \/ PackAttribute
    \/ PackReturn
    \/ StructUnpack
    \/ StructUnpackForeign
    \/ SkipPadding
    \/ UnpackAttribute
    \/ UnpackReturn

SpecStruct == InitStruct /\ [][NextStruct]_vars

(***************************************************************************)
(* umbi/binary/integers.py: integers as little-endian bytestrings          *)
(***************************************************************************)
\* int.bit_length of a non-negative integer
RECURSIVE bit_length(_)
bit_length(n) == IF n = 0 THEN 0 ELSE 1 + bit_length(n \div 2)

\* num_bits_for_integer
num_bits_for_integer(value, signed, round_to_8) ==
    LET num_bits == IF ~signed THEN bit_length(value)
                    ELSE (IF value >= 0 THEN bit_length(value)
                          ELSE bit_length(-value - 1)) + 1
    IN IF round_to_8 /\ num_bits % 8 # 0
       THEN num_bits + 8 - (num_bits % 8) ELSE num_bits

\* num_bytes_for_integer
num_bytes_for_integer(value, signed, round_to_8) ==
    LET num_bytes == num_bits_for_integer(value, signed, round_to_8) \div 8
    IN IF round_to_8 /\ num_bytes % 8 # 0
       THEN num_bytes + 8 - (num_bytes % 8) ELSE num_bytes

\* int.to_bytes(num_bytes, "little", signed): two's complement, low byte first
RECURSIVE to_bytes(_, _)
to_bytes(value, num_bytes) ==
    IF num_bytes = 0 THEN <<>>
    ELSE <<value % 256>> \o to_bytes(value \div 256, num_bytes - 1)

\* integer_to_bytes
integer_to_bytes(value, num_bytes, signed) ==
    IF ~IntegerFits(value, signed, 8 * num_bytes)
    THEN [ok |-> FALSE, bytes |-> <<>>]
    ELSE [ok |-> TRUE, bytes |-> to_bytes(value, num_bytes)]

\* int.from_bytes(data, "little", signed), from the high byte down
RECURSIVE from_bytes(_, _)
from_bytes(acc, data) ==
    IF data = <<>> THEN acc
    ELSE from_bytes(Saturate(acc * 256 + data[Len(data)]),
                    SubSeq(data, 1, Len(data) - 1))

\* bytes_to_integer
bytes_to_integer(data, signed) ==
    IF data = <<>> THEN 0
    ELSE LET top == data[Len(data)]
         IN from_bytes(IF signed /\ top >= 128 THEN top - 256 ELSE top,
                       SubSeq(data, 1, Len(data) - 1))

(***************************************************************************)
(* umbi/binary/utils.py, rationals.py, intervals.py, numeric_primitives.py *)
(* and common.py.  A value is a tuple of integers: <<v>> for an integer,   *)
(* <<numerator, denominator>> for a rational, <<left, right>> for an       *)
(* integer interval, the two rationals in a row for a rational interval.   *)
(***************************************************************************)
\* split_bytes_half
split_bytes_half(bytestring) ==
    LET mid == Len(bytestring) \div 2
    IN [ok |-> Len(bytestring) % 2 = 0,
        first |-> SubSeq(bytestring, 1, mid),
        second |-> SubSeq(bytestring, mid + 1, Len(bytestring))]

RECURSIVE GCD(_, _)
GCD(a, b) == IF b = 0 THEN a ELSE GCD(b, a % b)
Abs(x) == IF x < 0 THEN -x ELSE x

\* fractions.Fraction(numerator, denominator): lowest terms, positive
\* denominator; ZeroDivisionError on a zero denominator
Fraction(numerator, denominator) ==
    IF denominator = 0 THEN [ok |-> FALSE, value |-> <<>>]
    ELSE LET g == GCD(Abs(numerator), Abs(denominator))
             sign == IF denominator < 0 THEN -1 ELSE 1
         IN [ok |-> TRUE,
             value |-> <<sign * (numerator \div g), sign * (denominator \div g)>>]

\* normalize_rational
normalize_rational(value) ==
    IF value[2] < 0 THEN <<-value[1], -value[2]>> ELSE value

\* num_bytes_for_rational
num_bytes_for_rational(value) ==
    LET numerator_size == num_bytes_for_integer(value[1], TRUE, TRUE)
        denominator_size == num_bytes_for_integer(value[2], FALSE, TRUE)
    IN 2 * (IF numerator_size > denominator_size THEN numerator_size
            ELSE denominator_size)

\* bytes_to_rational
bytes_to_rational(data) ==
    LET h == split_bytes_half(data)
    IN IF ~h.ok THEN [ok |-> FALSE, value |-> <<>>]
       ELSE Fraction(bytes_to_integer(h.first, TRUE),
                     bytes_to_integer(h.second, FALSE))

\* rational_to_bytes
rational_to_bytes(value, term_size_bytes) ==
    LET v == normalize_rational(value)
        minimal_term_size == num_bytes_for_rational(v) \div 2
        numerator_bytes == integer_to_bytes(v[1], term_size_bytes, TRUE)
        denominator_bytes == integer_to_bytes(v[2], term_size_bytes, FALSE)
    IN IF term_size_bytes < minimal_term_size
       THEN [ok |-> FALSE, bytes |-> <<>>]
       ELSE IF ~numerator_bytes.ok \/ ~denominator_bytes.ok
            THEN [ok |-> FALSE, bytes |-> <<>>]
            ELSE [ok |-> TRUE,
                  bytes |-> numerator_bytes.bytes \o denominator_bytes.bytes]

\* SizedType
SizedType(type, size_bits) == [type |-> type, size_bits |-> size_bits]

\* type_default_size
type_default_size(type) ==
    CASE type = "bool" -> 1
      [] type = "string" -> 64
      [] type \in {"int", "uint", "double"} -> 64
      [] type = "rational" -> 128
      [] type \in {"int-interval", "uint-interval", "double-interval"} -> 128
      [] type = "rational-interval" -> 256

\* validate_type_size: TRUE when it returns, FALSE when it raises
validate_type_size(type, size) ==
    CASE type = "bool" -> TRUE
      [] type = "string" -> size = 64
      [] type \in {"int", "uint"} -> TRUE
      [] type = "double" -> size = 64
      [] type = "rational" -> size % 2 = 0
      [] type \in {"int-interval", "uint-interval", "double-interval"} ->
            size % 2 = 0
      [] type = "rational-interval" -> size % 2 = 0 /\ size % 4 = 0

\* SizedType.validate
SizedType_validate(sized_type) ==
    sized_type.size_bits > 0
    /\ validate_type_size(sized_type.type, sized_type.size_bits)

\* the arguments of a call SizedType(type, size_bits); size_bits may be
\* left out
SizedTypeArgs(type, size_bits) ==
    [type |-> type, size_bits |-> size_bits, given |-> TRUE]
SizedTypeDefaultArgs(type) ==
    [type |-> type, size_bits |-> 0, given |-> FALSE]

\* SizedType.__init__: the object it leaves, and whether it runs validate
\* (__post_init__ is called only by an __init__ that dataclass generates)
SizedType_init_validates == FALSE
SizedType_init(args) ==
    SizedType(args.type,
              IF args.given THEN args.size_bits
              ELSE type_default_size(args.type))
\* SizedType.size_bytes
size_bytes(sized_type) == (sized_type.size_bits + 7) \div 8
\* SizedType.is_byte_aligned
is_byte_aligned(sized_type) == sized_type.size_bits % 8 = 0

NumericPrimitiveTypes == {"int", "uint", "rational"}
IntervalTypes == {"int-interval", "uint-interval", "rational-interval"}
\* interval_base_type
interval_base_type(type) ==
    CASE type = "int-interval" -> "int"
      [] type = "uint-interval" -> "uint"
      [] type = "double-interval" -> "double"
      [] type = "rational-interval" -> "rational"

\* numeric_primitive_to_bytes
numeric_primitive_to_bytes(value, sized_type) ==
    CASE sized_type.type = "int" ->
            integer_to_bytes(value[1], size_bytes(sized_type), TRUE)
      [] sized_type.type = "uint" ->
            integer_to_bytes(value[1], size_bytes(sized_type), FALSE)
      [] sized_type.type = "rational" ->
            rational_to_bytes(value, size_bytes(sized_type))

\* bytes_to_numeric_primitive
bytes_to_numeric_primitive(data, value_type) ==
    CASE value_type = "int" ->
            [ok |-> TRUE, value |-> <<bytes_to_integer(data, TRUE)>>]
      [] value_type = "uint" ->
            [ok |-> TRUE, value |-> <<bytes_to_integer(data, FALSE)>>]
      [] value_type = "rational" -> bytes_to_rational(data)

\* the left and the right end of an interval value
IntervalLeft(value) == SubSeq(value, 1, Len(value) \div 2)
IntervalRight(value) == SubSeq(value, Len(value) \div 2 + 1, Len(value))

\* interval_to_bytes
interval_to_bytes(interval, sized_type) ==
    LET sized_base_type == SizedType(interval_base_type(sized_type.type),
                                     sized_type.size_bits \div 2)
        lower == numeric_primitive_to_bytes(IntervalLeft(interval),
                                            sized_base_type)
        upper == numeric_primitive_to_bytes(IntervalRight(interval),
                                            sized_base_type)
    IN IF sized_type.size_bits % 2 # 0 THEN [ok |-> FALSE, bytes |-> <<>>]
       ELSE IF ~lower.ok \/ ~upper.ok THEN [ok |-> FALSE, bytes |-> <<>>]
       ELSE [ok |-> TRUE, bytes |-> lower.bytes \o upper.bytes]

\* Interval.validate: left <= right, integers or rationals (whose
\* denominators are positive)
Interval_validate_Mutant(left, right) == TRUE
Interval_validate(left, right) ==
    IF Len(left) = 1 THEN left[1] <= right[1]
    ELSE left[1] * right[2] <= right[1] * left[2]

\* Interval(left, right): ValueError unless validate passes
Interval_init(left, right) ==
    IF Interval_validate(left, right)
    THEN [ok |-> TRUE, value |-> left \o right]
    ELSE [ok |-> FALSE, value |-> <<>>]

\* bytes_to_interval
bytes_to_interval(data, value_type) ==
    LET h == split_bytes_half(data)
        lower == bytes_to_numeric_primitive(h.first, interval_base_type(value_type))
        upper == bytes_to_numeric_primitive(h.second, interval_base_type(value_type))
    IN IF ~h.ok THEN [ok |-> FALSE, value |-> <<>>]
       ELSE IF ~lower.ok \/ ~upper.ok THEN [ok |-> FALSE, value |-> <<>>]
       ELSE Interval_init(lower.value, upper.value)

\* value_to_bytes
value_to_bytes(value, sized_type) ==
    IF sized_type.type \in NumericPrimitiveTypes
    THEN numeric_primitive_to_bytes(value, sized_type)
    ELSE interval_to_bytes(value, sized_type)

\* bytes_to_value
bytes_to_value(data, value_type) ==
    IF value_type \in NumericPrimitiveTypes
    THEN bytes_to_numeric_primitive(data, value_type)
    ELSE bytes_to_interval(data, value_type)

(***************************************************************************)
(* umbi/binary/sequences.py: vectors of fixed-width values                 *)
(***************************************************************************)
\* how many values a vector has at most
MaxVectorLen == 2

\* the element types and, for each, the values vectors are made of
SizedTypes ==
    {SizedType("int", 16), SizedType("int", 64),
     SizedType("uint", 12), SizedType("uint", 16), SizedType("uint", 32),
     SizedType("rational", 32), SizedType("rational", 64),
     SizedType("rational", 128),
     SizedType("int-interval", 128), SizedType("uint-interval", 64),
     SizedType("rational-interval", 256)}
TypeValues(type) ==
    CASE type = "int" -> {<<-3>>, <<300>>, <<-40000>>}
      [] type = "uint" -> {<<5>>, <<5000>>, <<70000>>}
      [] type = "rational" -> {<<3, 4>>, <<-1, 2>>, <<70000, 1>>}
      [] type = "int-interval" -> {<<-3, 5>>, <<5, -3>>}
      [] type = "uint-interval" -> {<<5, 300>>, <<7, 7>>}
      [] type = "rational-interval" -> {<<1, 2, 3, 4>>, <<3, 4, 1, 2>>}
Vectors(type) == UNION {[1..n -> TypeValues(type)] : n \in 0..MaxVectorLen}

RECURSIVE Join(_)
Join(chunks) == IF chunks = <<>> THEN <<>> ELSE Head(chunks) \o Join(Tail(chunks))

\* bytes_into_chunks
bytes_into_chunks(data, chunk_size) ==
    IF chunk_size <= 0 \/ Len(data) % chunk_size # 0
    THEN [ok |-> FALSE, chunks |-> <<>>]
    ELSE [ok |-> TRUE,
          chunks |-> [i \in 1..(Len(data) \div chunk_size) |->
                        SubSeq(data, (i - 1) * chunk_size + 1, i * chunk_size)]]

\* the calls SizedType(...) of the sessions, and the vectors encoded with
\* the type constructed
OtherSizedTypeArgs ==
    {SizedTypeArgs("bool", 1), SizedTypeArgs("bool", 2),
     SizedTypeArgs("string", 64), SizedTypeArgs("string", 32),
     SizedTypeArgs("double", 64), SizedTypeArgs("double", 32),
     SizedTypeArgs("rational", 33), SizedTypeArgs("int-interval", 63),
     SizedTypeArgs("rational-interval", 66), SizedTypeArgs("uint", 0)}
    \cup {SizedTypeDefaultArgs(t) :
            t \in {"bool", "string", "double", "int", "rational",
                   "rational-interval"}}
CodecSessions ==
    UNION {{[args |-> SizedTypeArgs(t.type, t.size_bits), vector |-> v] :
              v \in Vectors(t.type)} : t \in SizedTypes}
    \cup {[args |-> a, vector |-> <<>>] : a \in OtherSizedTypeArgs}

\* before SizedType.__init__ has run the object has no width
InitCodec(args, vector) ==
    [args |-> args, sized_type |-> SizedType(args.type, 0),
     validated |-> "no", vector |-> vector, vi |-> 1,
     epc |-> "construct", ei |-> 1, own |-> TRUE,
     has_csr |-> FALSE, csr |-> <<>>, chunks |-> <<>>, data |-> <<>>,
     dpc |-> "idle", dchunks |-> <<>>, di |-> 1, decoded |-> <<>>]

\* SizedType(type, size_bits)
SizedTypeInit ==
    /\ cc.epc = "construct"
    /\ LET t == SizedType_init(cc.args)
       IN IF SizedType_init_validates /\ ~SizedType_validate(t)
          THEN cc' = [cc EXCEPT !.epc = "rejected"]
          ELSE cc' = [cc EXCEPT !.sized_type = t,
                                !.epc = IF t.type \in IntervalTypes
                                        THEN "values" ELSE "encode"]
    /\ UNCHANGED <<iovars, sc, vc, tc>>

\* Interval(left, right) for the next item of a vector of intervals
IntervalInit ==
    /\ cc.epc = "values"
    /\ IF cc.vi > Len(cc.vector) THEN cc' = [cc EXCEPT !.epc = "encode"]
       ELSE IF Interval_init(IntervalLeft(cc.vector[cc.vi]),
                             IntervalRight(cc.vector[cc.vi])).ok
            THEN cc' = [cc EXCEPT !.vi = @ + 1]
            ELSE cc' = [cc EXCEPT !.epc = "value_rejected"]
    /\ UNCHANGED <<iovars, sc, vc, tc>>

\* sized_type.validate(), called on the constructed type (as
\* StructAttribute.validate does)
SizedTypeValidate ==
    /\ cc.epc = "encode" /\ cc.ei = 1 /\ cc.validated = "no"
    /\ cc' = [cc EXCEPT !.validated =
                 IF SizedType_validate(cc.sized_type) THEN "ok" ELSE "raised"]
    /\ UNCHANGED <<iovars, sc, vc, tc>>

\* vector_to_bytes: value_to_bytes of the next item
ValueToBytes ==
    /\ cc.epc = "encode" /\ cc.ei <= Len(cc.vector)
    /\ LET r == value_to_bytes(cc.vector[cc.ei], cc.sized_type)
       IN IF ~r.ok THEN cc' = [cc EXCEPT !.epc = "error"]
          ELSE cc' = [cc EXCEPT !.chunks = Append(@, r.bytes), !.ei = @ + 1]
    /\ UNCHANGED <<iovars, sc, vc, tc>>

\* vector_to_bytes: the chunks joined (b"" for the empty vector)
VectorToBytesReturn ==
    /\ cc.epc = "encode" /\ cc.ei > Len(cc.vector)
    /\ cc' = [cc EXCEPT !.epc = "encoded", !.data = Join(cc.chunks)]
    /\ UNCHANGED <<iovars, sc, vc, tc>>

\* chunks_to_csr: the running sum of the chunk lengths, from 0
RECURSIVE chunks_to_csr_from(_, _)
chunks_to_csr_from(current_pos, chunks) ==
    IF chunks = <<>> THEN <<>>
    ELSE <<current_pos + Len(Head(chunks))>>
         \o chunks_to_csr_from(current_pos + Len(Head(chunks)), Tail(chunks))
chunks_to_csr(chunks) == <<0>> \o chunks_to_csr_from(0, chunks)

\* vector_to_bytes_with_csr returns: (b"", None) for the empty vector, else
\* the chunks joined and their csr
VectorToBytesWithCsrReturn ==
    /\ cc.epc = "encode" /\ cc.ei > Len(cc.vector)
    /\ IF Len(cc.vector) = 0
       THEN cc' = [cc EXCEPT !.epc = "encoded_with_csr", !.data = <<>>,
                             !.has_csr = FALSE]
       ELSE cc' = [cc EXCEPT !.epc = "encoded_with_csr",
                             !.data = Join(cc.chunks),
                             !.has_csr = TRUE,
                             !.csr = chunks_to_csr(cc.chunks)]
    /\ UNCHANGED <<iovars, sc, vc, tc>>

\* bytes_to_vector on what vector_to_bytes returned, up to the chunking
BytesIntoChunks ==
    /\ cc.epc = "encoded" /\ cc.dpc = "idle"
    /\ LET c == bytes_into_chunks(cc.data, size_bytes(cc.sized_type))
       IN IF Len(cc.data) = 0 THEN cc' = [cc EXCEPT !.dpc = "decoded"]
          ELSE IF ~is_byte_aligned(cc.sized_type) \/ ~c.ok
               THEN cc' = [cc EXCEPT !.dpc = "error"]
               ELSE cc' = [cc EXCEPT !.dpc = "chunked", !.dchunks = c.chunks]
    /\ UNCHANGED <<iovars, sc, vc, tc>>

\* the bytes with their two halves exchanged
SwapHalves(data) ==
    LET mid == Len(data) \div 2
    IN SubSeq(data, mid + 1, Len(data)) \o SubSeq(data, 1, mid)

\* bytes_to_vector on bytes that vector_to_bytes did not return
BytesIntoChunksForeign ==
    /\ cc.epc = "encoded" /\ cc.dpc = "idle" /\ Len(cc.vector) = 1
    /\ LET data == SwapHalves(cc.data)
           c == bytes_into_chunks(data, size_bytes(cc.sized_type))
       IN /\ data # cc.data
          /\ IF ~is_byte_aligned(cc.sized_type) \/ ~c.ok
             THEN cc' = [cc EXCEPT !.dpc = "error", !.own = FALSE,
                                   !.data = data]
             ELSE cc' = [cc EXCEPT !.dpc = "chunked", !.dchunks = c.chunks,
                                   !.own = FALSE, !.data = data]
    /\ UNCHANGED <<iovars, sc, vc, tc>>

\* bytes_to_vector: bytes_to_value of the next chunk
BytesToValue ==
    /\ cc.dpc = "chunked" /\ cc.di <= Len(cc.dchunks)
    /\ LET r == bytes_to_value(cc.dchunks[cc.di], cc.sized_type.type)
       IN IF ~r.ok THEN cc' = [cc EXCEPT !.dpc = "error"]
          ELSE cc' = [cc EXCEPT !.decoded = Append(@, r.value), !.di = @ + 1]
    /\ UNCHANGED <<iovars, sc, vc, tc>>

\* bytes_to_vector returns the list
BytesToVectorReturn ==
    /\ cc.dpc = "chunked" /\ cc.di > Len(cc.dchunks)
    /\ cc' = [cc EXCEPT !.dpc = "decoded"]
    /\ UNCHANGED <<iovars, sc, vc, tc>>

(***************************************************************************)
(* SpecCodec: vector_to_bytes of one vector, then bytes_to_vector of the   *)
(* bytes.                                                                  *)
(***************************************************************************)
InitCodecs ==
    /\ IoIdle
    /\ sc = <<>>
    /\ cc \in {InitCodec(x.args, x.vector) : x \in CodecSessions}
    /\ vc = <<>>
    /\ tc = <<>>

NextCodec ==
    \/ SizedTypeInit
    \/ SizedTypeValidate
    \/ IntervalInit
    \/ ValueToBytes
    \/ VectorToBytesReturn
    \/ VectorToBytesWithCsrReturn
    \/ BytesIntoChunks
    \/ BytesIntoChunksForeign
    \/ BytesToValue
    \/ BytesToVectorReturn

SpecCodec == InitCodecs /\ [][NextCodec]_vars

(***************************************************************************)
(* Offsets vectors and bitvectors: umbi/datatypes/vector.py,               *)
(* TarDecoder.truncate_bitvector / read_bitvector and the initial-state    *)
(* flags of UmbReader.read_state_files.                                    *)
(***************************************************************************)
MaxOffset == 2
MaxBits == 3
MaxStringLen == 2

\* is_vector_ranges: non-empty, every item an interval with x[0] <= x[1],
\* every end equal to the next start
is_vector_ranges(ranges) ==
    /\ Len(ranges) # 0
    /\ \A i \in 1..Len(ranges) : ranges[i][1] <= ranges[i][2]
    /\ \A i \in 1..(Len(ranges) - 1) : ranges[i][2] = ranges[i + 1][1]

is_vector_csr_Mutant(vector) ==
    /\ Len(vector) >= 2
    /\ vector[1] = 0

\* is_vector_csr: at least two entries, first entry 0, non-decreasing
is_vector_csr(vector) ==
    /\ Len(vector) >= 2
    /\ vector[1] = 0
    /\ \A i \in 1..(Len(vector) - 1) : vector[i] <= vector[i + 1]

\* the body of csr_to_ranges after its assertion
csr_to_ranges(csr) == [i \in 1..(Len(csr) - 1) |-> <<csr[i], csr[i + 1]>>]

\* the body of ranges_to_csr after its assertion
ranges_to_csr(ranges) ==
    [i \in 1..Len(ranges) |-> ranges[i][1]] \o <<ranges[Len(ranges)][2]>>

truncate_bitvector_Mutant(vector, num_entries) ==
    [vector |-> vector, warned |-> FALSE]

\* TarDecoder.truncate_bitvector: the returned list, and whether the
\* warning was logged
truncate_bitvector(vector, num_entries) ==
    IF Len(vector) > num_entries
    THEN [vector |-> SubSeq(vector, 1, num_entries),
          warned |-> \E i \in (num_entries + 1)..Len(vector) : vector[i]]
    ELSE [vector |-> vector, warned |-> FALSE]

\* [False] * n
AllFalse(n) == [i \in 1..n |-> FALSE]

SeqsUpTo(S, n) == UNION {[1..k -> S] : k \in 0..n}

Offsets == 0..MaxOffset
CsrInputs == SeqsUpTo(Offsets, MaxVectorLen + 1)
RangesInputs == SeqsUpTo(Offsets \X Offsets, MaxVectorLen)
BitvectorInputs == SeqsUpTo(BOOLEAN, MaxBits)

\* one session: op names the entry point, pc the position in it; csr0 and
\* ranges0 keep the argument of the first call, present says whether
\* state-is-initial.bin is a member, bits is the list decoded from it
VectorSession(op, csr0, ranges0, present, bits, num_entries, num_initial_states) ==
    [op |-> op, pc |-> "first",
     csr0 |-> csr0, ranges0 |-> ranges0, csr |-> csr0, ranges |-> ranges0,
     present |-> present, bits |-> bits, num_entries |-> num_entries,
     num_initial_states |-> num_initial_states,
     vector |-> <<>>, warned |-> FALSE]

\* csr_to_ranges: the first call of a "csr" session, the second of a
\* "ranges" session
CsrToRanges ==
    /\ vc # <<>>
    /\ \/ vc.op = "csr" /\ vc.pc = "first"
       \/ vc.op = "ranges" /\ vc.pc = "second"
    /\ IF is_vector_csr(vc.csr)
       THEN vc' = [vc EXCEPT !.ranges = csr_to_ranges(vc.csr),
                             !.pc = IF vc.pc = "first" THEN "second" ELSE "done"]
       ELSE vc' = [vc EXCEPT !.pc = "AssertionError"]
    /\ UNCHANGED <<iovars, sc, cc, tc>>

\* ranges_to_csr: the first call of a "ranges" session, the second of a
\* "csr" session
RangesToCsr ==
    /\ vc # <<>>
    /\ \/ vc.op = "ranges" /\ vc.pc = "first"
       \/ vc.op = "csr" /\ vc.pc = "second"
    /\ IF is_vector_ranges(vc.ranges)
       THEN vc' = [vc EXCEPT !.csr = ranges_to_csr(vc.ranges),
                             !.pc = IF vc.pc = "first" THEN "second" ELSE "done"]
       ELSE vc' = [vc EXCEPT !.pc = "AssertionError"]
    /\ UNCHANGED <<iovars, sc, cc, tc>>

\* TarDecoder.read_bitvector: read_vector(BOOL1, required=True), then
\* truncate_bitvector
read_bitvector(s) ==
    IF ~s.present
    THEN [s EXCEPT !.pc = "KeyError"]
    ELSE LET t == truncate_bitvector(s.bits, s.num_entries)
         IN  [s EXCEPT !.vector = t.vector, !.warned = t.warned,
                       !.pc = "done"]

ReadBitvector ==
    /\ vc # <<>>
    /\ vc.op = "read_bitvector" /\ vc.pc = "first"
    /\ vc' = read_bitvector(vc)
    /\ UNCHANGED <<iovars, sc, cc, tc>>

\* UmbReader.read_annotation, values of a BOOL1 annotation: the decoded
\* list is truncated to the number of items the annotation applies to
TruncateAnnotation ==
    /\ vc # <<>>
    /\ vc.op = "read_annotation" /\ vc.pc = "first"
    /\ LET t == truncate_bitvector(vc.bits, vc.num_entries)
       IN  vc' = [vc EXCEPT !.vector = t.vector, !.warned = t.warned,
                            !.pc = "done"]
    /\ UNCHANGED <<iovars, sc, cc, tc>>

ReadStateIsInitial_Mutant ==
    /\ vc # <<>>
    /\ vc.op = "read_state_files" /\ vc.pc = "first"
    /\ vc' = read_bitvector(vc)
    /\ UNCHANGED <<iovars, sc, cc, tc>>

\* UmbReader.read_state_files, umb.state_is_initial (num_entries holds
\* ts.num_states)
ReadStateIsInitial ==
    /\ vc # <<>>
    /\ vc.op = "read_state_files" /\ vc.pc = "first"
    /\ IF vc.num_initial_states = 0
       THEN vc' = [vc EXCEPT !.vector = AllFalse(vc.num_entries),
                             !.pc = "done"]
       ELSE vc' = read_bitvector(vc)
    /\ UNCHANGED <<iovars, sc, cc, tc>>

(***************************************************************************)
(* Strings: a str is the sequence of its code points; add_strings and      *)
(* read_strings of TarEncoder / TarDecoder, with the members of the        *)
(* archive as byte sequences.                                              *)
(***************************************************************************)
UINT64 == [type |-> "uint", size_bits |-> 64]

\* string_to_bytes: str.encode("utf-8"), code points below 0x800
RECURSIVE string_to_bytes(_)
string_to_bytes(string) ==
    IF string = <<>> THEN <<>>
    ELSE (IF Head(string) < 128 THEN <<Head(string)>>
          ELSE <<192 + (Head(string) \div 64), 128 + (Head(string) % 64)>>)
         \o string_to_bytes(Tail(string))

\* bytes_to_string: bytes.decode("utf-8"); ok is FALSE for UnicodeDecodeError
RECURSIVE bytes_to_string(_)
bytes_to_string(bytestring) ==
    IF bytestring = <<>> THEN [ok |-> TRUE, string |-> <<>>]
    ELSE LET b == Head(bytestring)
         IN  IF b < 128
             THEN LET r == bytes_to_string(Tail(bytestring))
                  IN  [ok |-> r.ok, string |-> <<b>> \o r.string]
             ELSE IF b >= 194 /\ b <= 223 /\ Len(bytestring) >= 2
                     /\ bytestring[2] >= 128 /\ bytestring[2] <= 191
             THEN LET r == bytes_to_string(Tail(Tail(bytestring)))
                  IN  [ok |-> r.ok,
                       string |-> <<(b - 192) * 64 + (bytestring[2] - 128)>>
                                  \o r.string]
             ELSE [ok |-> FALSE, string |-> <<>>]

\* vector_to_bytes_with_csr for a list of str
strings_to_bytes_with_csr(vector) ==
    IF Len(vector) = 0 THEN [data |-> <<>>, has_csr |-> FALSE, csr |-> <<>>]
    ELSE LET chunks == [i \in 1..Len(vector) |-> string_to_bytes(vector[i])]
         IN  [data |-> Join(chunks), has_csr |-> TRUE,
              csr |-> chunks_to_csr(chunks)]

\* vector_to_bytes / bytes_to_vector at UINT64
uint64s_to_bytes(vector) ==
    Join([i \in 1..Len(vector) |-> value_to_bytes(<<vector[i]>>, UINT64).bytes])

bytes_to_uint64s(data) ==
    LET c == bytes_into_chunks(data, 8)
    IN  [ok |-> c.ok,
         vector |-> [i \in 1..Len(c.chunks) |->
                        bytes_to_value(c.chunks[i], "uint").value[1]]]

\* bytes_with_csr_into_chunks
bytes_with_csr_into_chunks(data, chunk_ranges) ==
    IF Len(data) # chunk_ranges[Len(chunk_ranges)][2]
    THEN [ok |-> FALSE, chunks |-> <<>>]
    ELSE [ok |-> TRUE,
          chunks |-> [i \in 1..Len(chunk_ranges) |->
                        SubSeq(data, chunk_ranges[i][1] + 1, chunk_ranges[i][2])]]

\* bytes_with_csr_to_vector for str elements: the list, or the class of
\* the exception
bytes_with_csr_to_strings(data, chunk_ranges) ==
    IF Len(data) = 0 THEN [raised |-> "", vector |-> <<>>]
    ELSE LET c == bytes_with_csr_into_chunks(data, chunk_ranges)
         IN  IF ~c.ok THEN [raised |-> "AssertionError", vector |-> <<>>]
             ELSE IF \E i \in 1..Len(c.chunks) : ~bytes_to_string(c.chunks[i]).ok
             THEN [raised |-> "UnicodeDecodeError", vector |-> <<>>]
             ELSE [raised |-> "",
                   vector |-> [i \in 1..Len(c.chunks) |->
                                  bytes_to_string(c.chunks[i]).string]]

\* TarDecoder.read_strings / read_vector_with_csr on the two members
read_strings_members(m) ==
    IF ~m.has_data THEN [raised |-> "KeyError", vector |-> <<>>]
    ELSE IF ~m.has_csr THEN [raised |-> "KeyError", vector |-> <<>>]
    ELSE LET chunk_ranges == bytes_to_uint64s(m.csr)
         IN  IF ~chunk_ranges.ok \/ ~is_vector_csr(chunk_ranges.vector)
             THEN [raised |-> "AssertionError", vector |-> <<>>]
             ELSE bytes_with_csr_to_strings(
                      m.data, csr_to_ranges(chunk_ranges.vector))

CodePoints == {97, 233}
StringInputs == SeqsUpTo(SeqsUpTo(CodePoints, MaxStringLen), MaxVectorLen)

\* a strings session: the list handed to add_strings, the two members of
\* the archive, what read_strings gave back
StringsSession(strings) ==
    [op |-> "strings", pc |-> "first", strings |-> strings,
     members |-> [has_data |-> FALSE, data |-> <<>>,
                  has_csr |-> FALSE, csr |-> <<>>],
     raised |-> "", vector |-> <<>>]

\* TarEncoder.add_strings / add_vector_with_csr (required=True)
AddStrings ==
    /\ vc # <<>>
    /\ vc.op = "strings" /\ vc.pc = "first"
    /\ LET e == strings_to_bytes_with_csr(vc.strings)
       IN  vc' = [vc EXCEPT
                    !.members = [has_data |-> TRUE, data |-> e.data,
                                 has_csr |-> e.has_csr,
                                 csr |-> IF e.has_csr
                                         THEN uint64s_to_bytes(e.csr)
                                         ELSE <<>>],
                    !.pc = "added"]
    /\ UNCHANGED <<iovars, sc, cc, tc>>

\* TarDecoder.read_strings (required=True) of the members add_strings left
ReadStrings ==
    /\ vc # <<>>
    /\ vc.op = "strings" /\ vc.pc = "added"
    /\ LET r == read_strings_members(vc.members)
       IN  vc' = [vc EXCEPT !.raised = r.raised, !.vector = r.vector,
                            !.pc = "done"]
    /\ UNCHANGED <<iovars, sc, cc, tc>>

VectorSessions ==
    {VectorSession("csr", c, <<>>, FALSE, <<>>, 0, 0) : c \in CsrInputs}
    \cup {VectorSession("ranges", <<>>, r, FALSE, <<>>, 0, 0) :
              r \in RangesInputs}
    \cup {VectorSession(x[1], <<>>, <<>>, x[2], x[3], x[4], 0) :
              x \in {"read_bitvector"} \X BOOLEAN \X BitvectorInputs
                        \X (0..(MaxBits + 1))}
    \cup {VectorSession("read_annotation", <<>>, <<>>, TRUE, x[1], x[2], 0) :
              x \in BitvectorInputs \X (0..(MaxBits + 1))}
    \cup {VectorSession("read_state_files", <<>>, <<>>, x[1], x[2], x[3], x[4]) :
              x \in BOOLEAN \X BitvectorInputs \X (0..(MaxBits + 1))
                        \X (0..1)}
    \cup {StringsSession(x) : x \in StringInputs}

InitVector ==
    /\ IoIdle
    /\ sc = <<>>
    /\ cc = <<>>
    /\ vc \in VectorSessions
    /\ tc = <<>>

NextVector ==
    \/ CsrToRanges
    \/ RangesToCsr
    \/ ReadBitvector
    \/ TruncateAnnotation
    \/ ReadStateIsInitial
    \/ AddStrings
    \/ ReadStrings

SpecVector == InitVector /\ [][NextVector]_vars

(***************************************************************************)
(* Data types: umbi/datatypes/atomic.py, numeric_primitive.py, interval.py,*)
(* numeric.py, datatype.py. A type is named by the value of its enum       *)
(* member.                                                                 *)
(***************************************************************************)
AtomicType == {"bool", "string"}
NumericPrimitiveType == {"int", "uint", "double", "rational"}
IntervalType ==
    {"int-interval", "uint-interval", "double-interval", "rational-interval"}
NumericType == NumericPrimitiveType \cup IntervalType
DataType == AtomicType \cup NumericType

\* base_to_interval_type
base_to_interval_type(type) ==
    CASE type = "int" -> "int-interval"
      [] type = "uint" -> "uint-interval"
      [] type = "double" -> "double-interval"
      [] type = "rational" -> "rational-interval"

\* what a call gives back: the class of the exception it raised ("" when it
\* returned) and the value it returned
Returns(value) == [raised |-> "", value |-> value]
Raises(class) == [raised |-> class, value |-> ""]

common_numeric_primitive_type_Mutant(types) ==
    IF types = {} \/ ~(types \subseteq NumericPrimitiveType)
    THEN Raises("AssertionError")
    ELSE IF "rational" \in types THEN Returns("rational")
    ELSE IF "int" \in types THEN Returns("int")
    ELSE IF "double" \in types THEN Returns("double")
    ELSE Returns("uint")

\* common_numeric_primitive_type
common_numeric_primitive_type(types) ==
    IF types = {} \/ ~(types \subseteq NumericPrimitiveType)
    THEN Raises("AssertionError")
    ELSE IF "rational" \in types THEN Returns("rational")
    ELSE IF "double" \in types THEN Returns("double")
    ELSE IF "int" \in types THEN Returns("int")
    ELSE Returns("uint")

\* common_interval_type
common_interval_type(types) ==
    IF types = {} \/ ~(types \subseteq IntervalType)
    THEN Raises("AssertionError")
    ELSE LET base_types == {interval_base_type(t) : t \in types}
             common_base_type == common_numeric_primitive_type(base_types)
         IN  IF common_base_type.raised # "" THEN common_base_type
             ELSE Returns(base_to_interval_type(common_base_type.value))

common_numeric_type_Mutant(types) ==
    IF types = {} \/ ~(types \subseteq NumericType)
    THEN Raises("AssertionError")
    ELSE IF \E t \in types : t \in IntervalType
    THEN common_interval_type(types \cap IntervalType)
    ELSE common_numeric_primitive_type(types)

\* common_numeric_type
common_numeric_type(types) ==
    IF types = {} \/ ~(types \subseteq NumericType)
    THEN Raises("AssertionError")
    ELSE IF \E t \in types : t \in IntervalType
    THEN LET interval_types ==
                 {IF t \in NumericPrimitiveType THEN base_to_interval_type(t)
                  ELSE t : t \in types}
         IN  common_interval_type(interval_types)
    ELSE common_numeric_primitive_type(types)

common_datatype_Mutant(types) ==
    IF types = {} THEN [call |-> Raises("AssertionError"), types |-> types]
    ELSE IF "bool" \in types
    THEN [call |-> Returns("bool"), types |-> types]
    ELSE IF "string" \in types
    THEN [call |-> Returns("string"), types |-> types]
    ELSE [call |-> common_numeric_type(types), types |-> types]

\* common_datatype: what the call gives back, and the members of the
\* caller's set when it has ended (types.remove acts on the set passed in)
common_datatype(types) ==
    IF types = {} THEN [call |-> Raises("AssertionError"), types |-> types]
    ELSE IF "string" \in types
    THEN [call |-> Returns("string"), types |-> types]
    ELSE IF "bool" \in types /\ Cardinality(types) = 1
    THEN [call |-> Returns("bool"), types |-> types]
    ELSE LET rest == types \ {"bool"}
         IN  [call |-> common_numeric_type(rest), types |-> rest]

\* A Python value: cls is its class; an int, a bool (0 / 1) and a str keep
\* their content in num; a float or a Fraction is num / den, or the float
\* named by special ("inf", "nan"); an Interval holds one value of class
\* of at both ends.
PyValue(cls, num, den, special) ==
    [cls |-> cls, num |-> num, den |-> den, special |-> special, of |-> ""]
NoPyValue == PyValue("NoneType", 0, 1, "")

PyValues ==
    {PyValue("bool", 1, 1, ""), PyValue("int", -3, 1, ""),
     PyValue("int", 5, 1, ""), PyValue("float", 5, 2, ""),
     PyValue("float", 0, 1, "inf"), PyValue("float", 0, 1, "nan"),
     PyValue("Fraction", 3, 4, ""), PyValue("str", 7, 1, "")}

ValueReturns(value) == [raised |-> "", value |-> value]
ValueRaises(class) == [raised |-> class, value |-> NoPyValue]

\* isinstance(value, int): bool is a subclass of int
IsInt(value) == value.cls \in {"bool", "int"}
\* isinstance(value, NumericPrimitive)
IsNumericPrimitive(value) == value.cls \in {"bool", "int", "float", "Fraction"}

\* numeric_primitive_type_of
numeric_primitive_type_of(value) ==
    IF IsInt(value) THEN "int"
    ELSE IF value.cls = "float" THEN "double"
    ELSE "rational"

\* Fraction.from_float: infinities raise OverflowError, NaN ValueError
Fraction_from_float(value) ==
    IF value.special = "inf" THEN ValueRaises("OverflowError")
    ELSE IF value.special = "nan" THEN ValueRaises("ValueError")
    ELSE LET f == Fraction(value.num, value.den).value
         IN  ValueReturns(PyValue("Fraction", f[1], f[2], ""))

\* promote_numeric_primitive_to
promote_numeric_primitive_to(value, target_type) ==
    IF numeric_primitive_type_of(value) = target_type THEN ValueReturns(value)
    ELSE IF target_type = "int" THEN ValueRaises("ValueError")
    ELSE IF target_type = "double"
    THEN IF ~IsInt(value) THEN ValueRaises("AssertionError")
         ELSE ValueReturns(PyValue("float", value.num, 1, ""))
    ELSE IF target_type # "rational" THEN ValueRaises("AssertionError")
    ELSE IF IsInt(value)
    THEN ValueReturns(PyValue("Fraction", value.num, 1, ""))
    ELSE IF value.cls = "float" THEN Fraction_from_float(value)
    ELSE ValueRaises("ValueError")

\* Interval(value, value): validate refuses bounds that are not numeric
\* primitives and bounds with not left <= right (NaN)
Interval_of(value) ==
    IF ~IsNumericPrimitive(value) \/ value.special = "nan"
    THEN ValueRaises("ValueError")
    ELSE ValueReturns([value EXCEPT !.cls = "Interval", !.of = value.cls])

\* promote_interval_to, for an interval with equal ends
promote_interval_to(value, target_type) ==
    LET bound == promote_numeric_primitive_to(
                     [value EXCEPT !.cls = value.of, !.of = ""],
                     interval_base_type(target_type))
    IN  IF bound.raised # "" THEN bound ELSE Interval_of(bound.value)

\* promote_numeric_to
promote_numeric_to(value, target_type) ==
    IF target_type \in NumericPrimitiveType
    THEN IF ~IsNumericPrimitive(value) THEN ValueRaises("AssertionError")
         ELSE promote_numeric_primitive_to(value, target_type)
    ELSE LET interval == IF value.cls = "Interval" THEN ValueReturns(value)
                         ELSE Interval_of(value)
         IN  IF interval.raised # "" THEN interval
             ELSE promote_interval_to(interval.value, target_type)

\* promote_value_to
promote_value_to(value, target_type) ==
    IF target_type = "string" THEN ValueReturns([value EXCEPT !.cls = "str"])
    ELSE IF target_type = "bool"
    THEN IF value.cls # "bool" THEN ValueRaises("AssertionError")
         ELSE ValueReturns(value)
    ELSE LET v == IF value.cls = "bool" THEN [value EXCEPT !.cls = "int"]
                  ELSE value
         IN  IF ~(IsNumericPrimitive(v) \/ v.cls = "Interval")
             THEN ValueRaises("AssertionError")
             ELSE promote_numeric_to(v, target_type)

\* one call: op names the function; types0 is the caller's set before the
\* call and types the same set now; value and target are the arguments of
\* a promotion; call is what the function gave back
TypeSession(op, types, value, target) ==
    [op |-> op, pc |-> "call", types0 |-> types, types |-> types,
     value |-> value, target |-> target, call |-> Returns("")]

TypeSessions ==
    {TypeSession(x[1], x[2], NoPyValue, "") :
        x \in {"common_datatype", "common_numeric_type",
               "common_numeric_primitive_type"} \X SUBSET DataType}
    \cup {TypeSession("promote_value_to", {}, x[1], x[2]) :
              x \in PyValues \X DataType}
    \cup {TypeSession("promote_numeric_primitive_to", {}, x[1], x[2]) :
              x \in {v \in PyValues : IsNumericPrimitive(v)}
                        \X NumericPrimitiveType}

CommonDatatype ==
    /\ tc # <<>>
    /\ tc.op = "common_datatype" /\ tc.pc = "call"
    /\ LET r == common_datatype(tc.types)
       IN  tc' = [tc EXCEPT !.call = r.call, !.types = r.types, !.pc = "done"]
    /\ UNCHANGED <<iovars, sc, cc, vc>>

CommonNumericType ==
    /\ tc # <<>>
    /\ tc.op = "common_numeric_type" /\ tc.pc = "call"
    /\ tc' = [tc EXCEPT !.call = common_numeric_type(tc.types), !.pc = "done"]
    /\ UNCHANGED <<iovars, sc, cc, vc>>

CommonNumericPrimitiveType ==
    /\ tc # <<>>
    /\ tc.op = "common_numeric_primitive_type" /\ tc.pc = "call"
    /\ tc' = [tc EXCEPT !.call = common_numeric_primitive_type(tc.types),
                        !.pc = "done"]
    /\ UNCHANGED <<iovars, sc, cc, vc>>

PromoteValueTo ==
    /\ tc # <<>>
    /\ tc.op = "promote_value_to" /\ tc.pc = "call"
    /\ tc' = [tc EXCEPT !.call = promote_value_to(tc.value, tc.target),
                        !.pc = "done"]
    /\ UNCHANGED <<iovars, sc, cc, vc>>

PromoteNumericPrimitiveTo ==
    /\ tc # <<>>
    /\ tc.op = "promote_numeric_primitive_to" /\ tc.pc = "call"
    /\ tc' = [tc EXCEPT
                !.call = promote_numeric_primitive_to(tc.value, tc.target),
                !.pc = "done"]
    /\ UNCHANGED <<iovars, sc, cc, vc>>

InitTypes ==
    /\ IoIdle
    /\ sc = <<>>
    /\ cc = <<>>
    /\ vc = <<>>
    /\ tc \in TypeSessions

NextTypes ==
    \/ CommonDatatype
    \/ CommonNumericType
    \/ CommonNumericPrimitiveType
    \/ PromoteValueTo
    \/ PromoteNumericPrimitiveTo

SpecTypes == InitTypes /\ [][NextTypes]_vars

(***************************************************************************)
(* Properties of the write and read sessions (checked under Spec)          *)
(***************************************************************************)
IsPrefix(s, t) == Len(s) <= Len(t) /\ SubSeq(t, 1, Len(s)) = s
ReadSections == {ReadOrder[i] : i \in 1..Len(ReadOrder)}

\* C1: for a model whose index validates (and that provides every vector
\* its index declares and no stochastic annotation), the archive write_umb
\* leaves is read by read_umb in
\* strict mode without error and with no unread member: whatever the writer
\* emitted some section reader consumed, and whatever a section reader
\* required had been emitted.
C1_WriterMirrorsReader ==
    (/\ rpc \in {"done", "failed"}
     /\ ~tampered /\ strict_mode
     /\ umb.absent = {} /\ umb.empty = {}
     /\ umb.index.annotation.probability_type = None)
    => (rpc = "done" /\ result = "model" /\ warnings = {})

\* C2: the tracking table of a read session has exactly one entry per archive
\* member, all unread when the session opens; a read call of a member sets
\* that member's entry and no other, a read call of a name that is not a
\* member changes nothing, and no entry goes back from read to unread.
C2_TrackingTable ==
    [][/\ (rpc' # "closed" =>
             /\ filenames' = storage'.members
             /\ DOMAIN filename_read' = filenames')
       /\ (rpc = "closed" /\ rpc' # "closed" =>
             \A f \in filenames' : ~filename_read'[f])
       /\ (rpc # "closed" /\ calls' = calls => filename_read' = filename_read)
       /\ (calls' # calls =>
             LET n == calls'[Len(calls')]
             IN IF n \in filenames
                THEN /\ filename_read'[n]
                     /\ \A f \in filenames \ {n} :
                           filename_read'[f] = filename_read[f]
                ELSE filename_read' = filename_read)
       /\ (rpc # "closed" =>
             \A f \in filenames : filename_read[f] => filename_read'[f])
      ]_vars

\* C2 witness: a session in which a member was read while another member was
\* still unread, and a name that is not a member was asked for.
C2_Witness ==
    /\ \E i \in 1..Len(calls) : calls[i] \in filenames /\ filename_read[calls[i]]
    /\ \E j \in 1..Len(calls) : calls[j] \notin filenames
    /\ \E f \in filenames : ~filename_read[f]

\* C3: once the leftover check has run, with some member unread strict mode
\* has raised (read_umb gave no model) and non-strict mode has warned about
\* exactly the unread members and read_umb gave the model; with no member
\* unread neither mode raised.
C3_LeftoverCheck ==
    checked =>
        LET unread == unread_files(filename_read)
        IN /\ (unread # {} /\ strict_mode =>
                  rpc = "failed" /\ result = "error")
           /\ (unread # {} /\ ~strict_mode =>
                  rpc = "done" /\ result = "model" /\ warnings = unread)
           /\ (unread = {} =>
                  rpc = "done" /\ result = "model" /\ warnings = {})

\* C3 witness: the leftover check ran in non-strict mode with a member unread
C3_Witness ==
    /\ checked /\ ~strict_mode
    /\ unread_files(filename_read) # {}
    /\ result = "model"

\* C4: index.json is the first member read_umb asks for and read_umb fails
\* when it is missing; the section readers run in the order state,
\* transition, annotation, valuation, observation; the leftover check runs
\* only after all of them have returned.
C4_ReadOrder ==
    /\ (calls # <<>> => calls[1] = INDEX)
    /\ (rpc \notin {"closed", "index"} /\ INDEX \notin filenames =>
          rpc = "failed" /\ result = "error" /\ sections = <<>>)
    /\ IsPrefix(sections, ReadOrder)
    /\ (rpc \in ReadSections => rpc = ReadOrder[Len(sections) + 1])
    /\ (rpc = "unread" \/ checked => sections = ReadOrder)

\* C4 witness: the leftover check ran after reads in several sections
C4_Witness ==
    /\ checked
    /\ Len(calls) > 3
    /\ \E i \in 1..Len(calls) : calls[i] = VALUATIONS

\* C5: storage is written at most once, by the TarWriter.write call that
\* follows the six section adders; when validation of the index or a
\* section adder fails, nothing is written.
C5_SingleWrite ==
    /\ nwrites <= 1
    /\ (storage.exists <=> nwrites = 1)
    /\ (nwrites = 1 => wpc = "done" /\ wsections = WriteOrder)
    /\ (storage.exists /\ ~tampered => storage.members = wfiles)
    /\ (wpc = "failed" => ~storage.exists /\ nwrites = 0)

\* C5 witness: a section adder failed after members had been added in memory
C5_Witness ==
    /\ wpc = "failed"
    /\ wfiles # {}
    /\ ~storage.exists


(***************************************************************************)
(* Properties of struct_pack and struct_unpack (checked under SpecStruct)  *)
(***************************************************************************)
RECURSIVE Reverse(_)
Reverse(s) == IF s = <<>> THEN <<>> ELSE Append(Reverse(Tail(s)), Head(s))

\* the bits of one field as the format describes them, most significant
\* first: zeros for padding, the value's bits for an attribute, followed by
\* the presence bit when the attribute is optional
DescribedFieldBits(f, value) ==
    LET signed == f.type = "int"
        enc == integer_to_bits(IF value.none THEN 0 ELSE value.v, f.size, signed)
    IN IF f.kind = "padding" THEN Zeros(f.size)
       ELSE IF f.is_optional
            THEN enc.bits \o <<IF value.none THEN 0 ELSE 1>>
            ELSE enc.bits

\* the fields in declaration order, each least significant bit first
RECURSIVE DescribedBitSequence(_, _)
DescribedBitSequence(type, values) ==
    IF type = <<>> THEN <<>>
    ELSE Reverse(DescribedFieldBits(Head(type), Head(values)))
         \o DescribedBitSequence(Tail(type), Tail(values))

\* bit j of a byte, bit 0 the least significant
ByteBit(b, j) == (b \div Pow2(j)) % 2

HasOptional(type) ==
    \E i \in 1..Len(type) : type[i].kind = "attribute" /\ type[i].is_optional

PackOver == sc.ppc \in {"packed", "error"}
OwnUnpackOver == sc.own /\ sc.upc \in {"unpacked", "error"}

\* C7: the bytes struct_pack returns hold the fields in declaration order,
\* each least significant bit first: bit k of that sequence is bit k mod 8 of
\* byte k div 8; struct_unpack of these bytes reads every field back.
C7_BitLayout ==
    /\ sc.ppc = "packed" =>
         LET seq == DescribedBitSequence(sc.type, sc.values)
         IN /\ Len(seq) = 8 * Len(sc.pbytes)
            /\ \A k \in 0..(Len(seq) - 1) :
                  seq[k + 1] = ByteBit(sc.pbytes[(k \div 8) + 1], k % 8)
    /\ OwnUnpackOver => (sc.upc = "unpacked" /\ sc.urecord = sc.values)

\* C8: an optional attribute of width w takes w + 1 bits, so a byte-aligned
\* struct type with optional attributes packs into size_bits / 8 bytes, and
\* unpacking them gives the record back, absent attributes included.
C8_OptionalRoundTrip ==
    (StructIsByteAligned(sc.type) /\ HasOptional(sc.type)) =>
        /\ PackOver =>
             (sc.ppc = "packed" /\ 8 * Len(sc.pbytes) = StructSizeBits(sc.type))
        /\ OwnUnpackOver => (sc.upc = "unpacked" /\ sc.urecord = sc.values)

\* C9: struct_unpack returns a record only if the fields took exactly the
\* bits of the input: no bit left in the buffer and no input byte unconsumed.
C9_ExactTiling ==
    sc.upc = "unpacked" =>
        /\ sc.uextracted = 8 * Len(sc.input)
        /\ sc.ubuffer = <<>>
        /\ sc.ubytes = <<>>

\* struct types without optional attributes: the layout of C7 holds
NoOptional_BitLayout == ~HasOptional(sc.type) => C7_BitLayout
\* the bit buffer is empty whenever struct_unpack returns a record
Unpacked_BufferEmpty == sc.upc = "unpacked" => sc.ubuffer = <<>>


(***************************************************************************)
(* Properties of vector_to_bytes and bytes_to_vector (checked under        *)
(* SpecCodec)                                                              *)
(***************************************************************************)
\* the value fits the sized type: an integer its width, the two terms of a
\* rational half the width each, the two ends of an interval half the width
RECURSIVE FitsType(_, _, _)
FitsType(value, type, size_bits) ==
    CASE type = "int" -> IntegerFits(value[1], TRUE, size_bits)
      [] type = "uint" -> IntegerFits(value[1], FALSE, size_bits)
      [] type = "rational" ->
            /\ IntegerFits(value[1], TRUE, size_bits \div 2)
            /\ IntegerFits(value[2], FALSE, size_bits \div 2)
      [] OTHER ->
            /\ FitsType(IntervalLeft(value), interval_base_type(type),
                        size_bits \div 2)
            /\ FitsType(IntervalRight(value), interval_base_type(type),
                        size_bits \div 2)

VectorFits ==
    \A i \in 1..Len(cc.vector) :
        FitsType(cc.vector[i], cc.sized_type.type, cc.sized_type.size_bits)
EncodeOver == cc.epc \in {"encoded", "error"}
DecodeOver == cc.dpc \in {"decoded", "error"}

\* C6: for a non-empty vector v of values that fit a byte-aligned sized type
\* T, vector_to_bytes(v, T) returns bytes and bytes_to_vector of them
\* returns v.
C6_VectorRoundTrip ==
    (cc.vector # <<>> /\ is_byte_aligned(cc.sized_type) /\ VectorFits) =>
        /\ EncodeOver => cc.epc = "encoded"
        /\ (cc.own /\ DecodeOver) =>
             (cc.dpc = "decoded" /\ cc.decoded = cc.vector)

\* C10: a rational encoded at a declared width of W bits takes W/8 bytes,
\* the first W/16 the numerator (signed), the last W/16 the denominator
\* (unsigned).
C10_RationalWidth ==
    cc.sized_type.type = "rational" =>
        \A i \in 1..Len(cc.chunks) :
            LET W == cc.sized_type.size_bits
                chunk == cc.chunks[i]
            IN /\ Len(chunk) = W \div 8
               /\ bytes_to_integer(SubSeq(chunk, 1, W \div 16), TRUE)
                    = cc.vector[i][1]
               /\ bytes_to_integer(SubSeq(chunk, Len(chunk) - W \div 16 + 1,
                                          Len(chunk)), FALSE)
                    = cc.vector[i][2]

\* vectors of integers and of integer intervals do make the round trip
NoRational_VectorRoundTrip ==
    cc.sized_type.type \in {"int", "uint", "int-interval", "uint-interval"}
        => C6_VectorRoundTrip


\* the range of a w-bit integer: [-2^(w-1), 2^(w-1) - 1] two's complement,
\* [0, 2^w - 1] unsigned (every integer of the model lies inside the
\* bounds of a width beyond ModelBits + 1)
InRange(value, signed, w) ==
    IF signed
    THEN w > ModelBits + 1
         \/ (-Pow2(w - 1) <= value /\ value <= Pow2(w - 1) - 1)
    ELSE 0 <= value /\ (w > ModelBits + 1 \/ value <= Pow2(w) - 1)

\* value_to_bytes was applied to item i: it returned bytes / it raised
ItemEncoded(i) == i <= Len(cc.chunks)
ItemRaised(i) == cc.epc = "error" /\ cc.ei = i

\* C11: encoding a rational at a declared width of W bits fails when the
\* numerator does not fit a signed integer of W/2 bits or the denominator
\* an unsigned one, and succeeds when both fit.
C11_RationalFits ==
    cc.sized_type.type = "rational" =>
        \A i \in 1..Len(cc.vector) :
            LET half == cc.sized_type.size_bits \div 2
                fit == /\ InRange(cc.vector[i][1], TRUE, half)
                       /\ InRange(cc.vector[i][2], FALSE, half)
            IN IF fit THEN ~ItemRaised(i) ELSE ~ItemEncoded(i)

IntegerRange(i) ==
    LET signed == cc.sized_type.type = "int"
        value == cc.vector[i]
    IN IF InRange(value[1], signed, cc.sized_type.size_bits)
       THEN /\ ~ItemRaised(i)
            /\ ItemEncoded(i) =>
                 bytes_to_value(cc.chunks[i], cc.sized_type.type)
                   = [ok |-> TRUE, value |-> value]
       ELSE ~ItemEncoded(i)

\* C12: encoding an integer at a declared width of w bits fails when the
\* value is outside the range of a w-bit integer of its signedness, and a
\* value inside encodes to bytes that decode to the same integer.
C12_IntegerRange ==
    cc.sized_type.type \in {"int", "uint"} =>
        \A i \in 1..Len(cc.vector) : IntegerRange(i)

\* at a declared width that is a multiple of 8 the range is enforced and
\* the bytes decode to the integer
Aligned_IntegerRange ==
    (cc.sized_type.type \in {"int", "uint"} /\ is_byte_aligned(cc.sized_type))
        => \A i \in 1..Len(cc.vector) : IntegerRange(i)


\* the width rules of the type families: Boolean 1, String 64, Double 64,
\* Rational and Interval even, Rational-Interval a multiple of 4
BreaksWidthRule(type, size) ==
    \/ type = "bool" /\ size # 1
    \/ type = "string" /\ size # 64
    \/ type = "double" /\ size # 64
    \/ type = "rational" /\ size % 2 # 0
    \/ type \in {"int-interval", "uint-interval", "double-interval"}
         /\ size % 2 # 0
    \/ type = "rational-interval" /\ size % 4 # 0

\* C13: constructing a SizedType with a width that breaks its family's
\* rule fails: no such SizedType object ever exists.
C13_WidthRejected ==
    (cc.args.given /\ BreaksWidthRule(cc.args.type, cc.args.size_bits))
        => cc.epc \in {"construct", "rejected"}


\* lower <= upper for an interval value of integers or of rationals
LowerLeqUpper(value) ==
    LET lower == IntervalLeft(value)
        upper == IntervalRight(value)
    IN IF Len(value) = 2 THEN ~(lower[1] > upper[1])
       ELSE ~(lower[1] * upper[2] > upper[1] * lower[2])

\* C14: every Interval value satisfies lower <= upper: the intervals a
\* vector is built of, once constructed, and the intervals decoded from
\* bytes.
C14_IntervalOrdered ==
    cc.sized_type.type \in IntervalTypes =>
        /\ \A i \in 1..Len(cc.vector) :
              (i < cc.vi \/ cc.epc \in {"encode", "encoded", "error"})
                  => LowerLeqUpper(cc.vector[i])
        /\ \A i \in 1..Len(cc.decoded) : LowerLeqUpper(cc.decoded[i])

\* bytes whose first half decodes to the larger integer were refused
C14_Witness ==
    /\ cc.sized_type.type = "int-interval"
    /\ ~cc.own /\ cc.dpc = "error" /\ cc.di = 1 /\ Len(cc.dchunks) = 1
    /\ LET h == split_bytes_half(cc.dchunks[1])
       IN bytes_to_integer(h.first, TRUE) > bytes_to_integer(h.second, TRUE)


\* the encodings of the items of the vector, in order, in one bytestring
RECURSIVE EncodingsJoined(_)
EncodingsJoined(vector) ==
    IF vector = <<>> THEN <<>>
    ELSE value_to_bytes(Head(vector), cc.sized_type).bytes
         \o EncodingsJoined(Tail(vector))

OffsetsArray ==
    /\ cc.data = EncodingsJoined(cc.vector)
    /\ cc.has_csr
    /\ Len(cc.csr) = Len(cc.vector) + 1
    /\ cc.csr[1] = 0
    /\ \A i \in 1..Len(cc.vector) :
          cc.csr[i + 1] - cc.csr[i]
            = Len(value_to_bytes(cc.vector[i], cc.sized_type).bytes)

\* C17: for a vector of N >= 0 elements vector_to_bytes_with_csr returns
\* the elements' encodings joined and an offsets array of length N + 1
\* that starts at 0 and steps by the encoded length of each element.
C17_Offsets ==
    cc.epc = "encoded_with_csr" => OffsetsArray

\* the same for N >= 1; for the empty vector the function returns the
\* empty bytestring and no offsets array
NonEmpty_Offsets ==
    cc.epc = "encoded_with_csr" =>
        IF Len(cc.vector) >= 1 THEN OffsetsArray
        ELSE cc.data = <<>> /\ ~cc.has_csr

(***************************************************************************)
(* Offsets vectors and bitvectors (SpecVector).                            *)
(***************************************************************************)
NonDecreasing(c) == \A i \in 1..(Len(c) - 1) : c[i] <= c[i + 1]

\* a CSR offsets array: first entry 0, non-decreasing
WellFormedCsr(c) == Len(c) >= 1 /\ c[1] = 0 /\ NonDecreasing(c)

\* a range list: starts at 0, every start <= end, every end the next start
WellFormedRanges(r) ==
    /\ Len(r) >= 1
    /\ r[1][1] = 0
    /\ \A i \in 1..Len(r) : r[i][1] <= r[i][2]
    /\ \A i \in 1..(Len(r) - 1) : r[i][2] = r[i + 1][1]

\* C15: csr_to_ranges(ranges_to_csr(r)) = r for every well-formed range
\* list r, and ranges_to_csr(csr_to_ranges(c)) = c for every well-formed
\* CSR offsets array c: neither call raises and the composition gives the
\* argument back.
C15_CsrRangesRoundTrip ==
    /\ (vc.op = "csr" /\ WellFormedCsr(vc.csr0))
          => /\ vc.pc # "AssertionError"
             /\ vc.pc = "done" => vc.csr = vc.csr0
    /\ (vc.op = "ranges" /\ WellFormedRanges(vc.ranges0))
          => /\ vc.pc # "AssertionError"
             /\ vc.pc = "done" => vc.ranges = vc.ranges0

\* the round trip holds for offsets arrays of at least two entries
TwoEntries_CsrRoundTrip ==
    (vc.op = "csr" /\ WellFormedCsr(vc.csr0) /\ Len(vc.csr0) >= 2)
        => /\ vc.pc # "AssertionError"
           /\ vc.pc = "done" => vc.csr = vc.csr0

BadCsr(c) == (Len(c) >= 1 /\ c[1] # 0) \/ ~NonDecreasing(c)

BadRanges(r) ==
    \/ \E i \in 1..(Len(r) - 1) : r[i][2] # r[i + 1][1]
    \/ \E i \in 1..Len(r) : r[i][1] > r[i][2]

\* C16: csr_to_ranges rejects every offsets array whose first entry is
\* not 0 or that decreases somewhere, and ranges_to_csr rejects every range
\* list in which an end differs from the next start or a start exceeds its
\* end (first and second call of a session alike).
C16_MalformedRejected ==
    /\ (vc.op = "csr" /\ vc.pc # "first" /\ BadCsr(vc.csr0))
          => vc.pc = "AssertionError"
    /\ (vc.op = "ranges" /\ vc.pc # "first" /\ BadRanges(vc.ranges0))
          => vc.pc = "AssertionError"
    /\ (vc.op = "ranges" /\ vc.pc = "done") => ~BadCsr(vc.csr)
    /\ (vc.op = "csr" /\ vc.pc = "done") => ~BadRanges(vc.ranges)

C16_Witness ==
    /\ vc.op = "csr" /\ vc.pc = "AssertionError"
    /\ Len(vc.csr0) = 3 /\ vc.csr0[1] = 0 /\ vc.csr0[2] > vc.csr0[3]

FirstEntries(v, n) == [i \in 1..n |-> v[i]]

DiscardedTrue ==
    \E i \in (vc.num_entries + 1)..Len(vc.bits) : vc.bits[i]

\* C18: truncating a decoded bitvector to logical length N gives its first
\* N entries when it is longer than N and the bitvector itself otherwise;
\* when a discarded entry is true a warning is logged and the truncated
\* vector is still returned, never an error.
C18_Truncation ==
    (vc.op \in {"read_bitvector", "read_annotation"} /\ vc.present
            /\ vc.pc # "first")
        => /\ vc.pc = "done"
           /\ vc.vector = IF Len(vc.bits) > vc.num_entries
                           THEN FirstEntries(vc.bits, vc.num_entries)
                           ELSE vc.bits
           /\ DiscardedTrue => vc.warned

C18_Witness ==
    /\ vc.op = "read_annotation" /\ vc.pc = "done"
    /\ Len(vc.bits) = 3 /\ vc.num_entries = 1 /\ vc.bits[3]
    /\ vc.warned /\ vc.vector = <<vc.bits[1]>>

\* C19: with a declared initial-state count of 0 the reader sets the
\* initial-state flags to num_states false values whether or not
\* state-is-initial.bin is a member; with a count above 0 it fails when the
\* member is absent and otherwise returns its bits truncated to num_states.
C19_InitialFlags ==
    (vc.op = "read_state_files" /\ vc.pc # "first")
        => IF vc.num_initial_states = 0
           THEN /\ vc.pc = "done"
                /\ Len(vc.vector) = vc.num_entries
                /\ \A i \in 1..Len(vc.vector) : ~vc.vector[i]
           ELSE IF ~vc.present
           THEN vc.pc = "KeyError"
           ELSE /\ vc.pc = "done"
                /\ vc.vector = IF Len(vc.bits) > vc.num_entries
                                THEN FirstEntries(vc.bits, vc.num_entries)
                                ELSE vc.bits

C19_Witness ==
    /\ vc.op = "read_state_files" /\ vc.pc = "done"
    /\ vc.num_initial_states = 0 /\ ~vc.present
    /\ vc.num_entries = 2 /\ vc.vector = <<FALSE, FALSE>>

(***************************************************************************)
(* Exit rates (Spec).                                                      *)
(***************************************************************************)
ExitRatesDeclared(ix) == ix.time = "stochastic" /\ ix.exit_rate_type # None

\* C20: state-to-exit-rate.bin is emitted by the writer and consumed by
\* the reader only when the model's time kind is stochastic and an
\* exit-rate type is declared; in every other configuration the writer
\* does not emit it and the reader does not consume it.
C20_ExitRateMember ==
    /\ STATE_TO_EXIT_RATE \in wfiles => ExitRatesDeclared(umb.index)
    /\ (\E i \in 1..Len(calls) : calls[i] = STATE_TO_EXIT_RATE)
          => ExitRatesDeclared(rindex)

\* the reader's half taken alone
Reader_ExitRateMember ==
    (\E i \in 1..Len(calls) : calls[i] = STATE_TO_EXIT_RATE)
        => ExitRatesDeclared(rindex)

(***************************************************************************)
(* Unsupported valuations (SpecArchive).                                   *)
(***************************************************************************)
Unsupported(v) ==
    /\ v.present
    /\ v.num_strings # None \/ v.num_classes # 1 \/ v.contains_strings

\* add_valuation_files / read_valuation_files has been called and has
\* returned or raised
WriterPastValuation ==
    /\ Len(wsections) >= 4
    /\ wpc # "valuation"

ReaderInValuation == \E i \in 1..Len(sections) : sections[i] = "annotation"

ReaderPastValuation ==
    /\ ReaderInValuation
    /\ rpc # "valuation"

\* C21: whenever the valuation declares a separate string pool, more than
\* one class, or a struct layout with a String field, writing and reading
\* the valuation section fail with NotImplementedError, and
\* valuations.bin is neither emitted nor consumed.
C21_ValuationNotImplemented ==
    /\ (Unsupported(umb.index.valuation) /\ WriterPastValuation)
          => /\ wpc = "failed"
             /\ raised = "NotImplementedError"
             /\ VALUATIONS \notin wfiles
    /\ (Unsupported(rindex.valuation) /\ ReaderPastValuation)
          => /\ rpc = "failed"
             /\ raised = "NotImplementedError"
             /\ \A i \in 1..Len(calls) : calls[i] # VALUATIONS

\* the same without the class of the exception: both sessions fail before
\* valuations.bin is emitted or consumed
Unsupported_FailsFast ==
    /\ (Unsupported(umb.index.valuation) /\ WriterPastValuation)
          => wpc = "failed" /\ VALUATIONS \notin wfiles
    /\ (Unsupported(rindex.valuation) /\ ReaderPastValuation)
          => /\ rpc = "failed"
             /\ \A i \in 1..Len(calls) : calls[i] # VALUATIONS

(***************************************************************************)
(* Common types and promotion (SpecTypes).                                 *)
(***************************************************************************)
Called(op) == tc.op = op /\ tc.pc = "done"

Priority(type) ==
    CASE type = "rational" -> 4
      [] type = "double" -> 3
      [] type = "int" -> 2
      [] type = "uint" -> 1

BaseOf(type) ==
    IF type \in IntervalType
    THEN CHOOSE b \in NumericPrimitiveType : base_to_interval_type(b) = type
    ELSE type

\* C22: for a non-empty set S of data types common_datatype(S) is String
\* if S contains String, otherwise Boolean if S is {Boolean}, otherwise
\* common_numeric_type of S without Boolean.
C22_CommonDatatype ==
    (Called("common_datatype") /\ tc.types0 # {})
        => tc.call = IF "string" \in tc.types0 THEN Returns("string")
                     ELSE IF tc.types0 = {"bool"} THEN Returns("bool")
                     ELSE common_numeric_type(tc.types0 \ {"bool"})

C22_Witness ==
    /\ Called("common_datatype")
    /\ tc.types0 = {"bool", "int", "double-interval"}
    /\ tc.call = Returns("double-interval")

\* C23: for a non-empty set S of numeric primitive types
\* common_numeric_primitive_type(S) is the member of S highest in the order
\* Rational > Double > SignedInt > UnsignedInt.
C23_PrimitivePriority ==
    (Called("common_numeric_primitive_type") /\ tc.types0 # {}
            /\ tc.types0 \subseteq NumericPrimitiveType)
        => /\ tc.call.raised = ""
           /\ tc.call.value \in tc.types0
           /\ \A t \in tc.types0 : Priority(t) <= Priority(tc.call.value)

C23_Witness ==
    /\ Called("common_numeric_primitive_type")
    /\ tc.types0 = {"uint", "int", "double"}
    /\ tc.call = Returns("double")

\* C24: for a non-empty set S of numeric types with at least one Interval
\* type, common_numeric_type(S) is the Interval type over the base of
\* highest priority among the members of S, a primitive member counted by
\* its own type and an interval member by its base; with no Interval type
\* in S the result is common_numeric_primitive_type(S).
C24_CommonNumericType ==
    (Called("common_numeric_type") /\ tc.types0 # {}
            /\ tc.types0 \subseteq NumericType)
        => IF tc.types0 \cap IntervalType # {}
           THEN /\ tc.call.raised = ""
                /\ tc.call.value \in IntervalType
                /\ \E t \in tc.types0 : BaseOf(t) = BaseOf(tc.call.value)
                /\ \A t \in tc.types0 :
                      Priority(BaseOf(t)) <= Priority(BaseOf(tc.call.value))
           ELSE tc.call = common_numeric_primitive_type(tc.types0)

C24_Witness ==
    /\ Called("common_numeric_type")
    /\ tc.types0 = {"uint-interval", "rational", "int"}
    /\ tc.call = Returns("rational-interval")

Promoted == tc.op \in {"promote_value_to", "promote_numeric_primitive_to"}
                /\ tc.pc = "done"

PromotionFails == tc.call.raised # "" /\ tc.call.value = NoPyValue

PromotionGives(cls) == tc.call.raised = "" /\ tc.call.value.cls = cls

PromotionRules ==
    /\ (tc.value.cls \in {"float", "Fraction"} /\ tc.target = "int")
          => PromotionFails
    /\ (tc.value.cls = "Fraction" /\ tc.target = "double") => PromotionFails
    /\ (tc.value.cls = "int" /\ tc.target = "double")
          => PromotionGives("float")
    /\ (tc.value.cls = "int" /\ tc.target = "rational")
          => PromotionGives("Fraction")
    /\ (tc.value.cls = "float" /\ tc.target = "rational")
          => PromotionGives("Fraction")

\* C25: promotion never narrows: a Double or Rational value promoted to
\* SignedInt, and a Rational value promoted to Double, fails and returns
\* no value; an integer promoted to Double or Rational, and a Double
\* promoted to Rational, succeeds with a value of the target type.
C25_Promotion == Promoted => PromotionRules

\* the same for the values that are finite
Finite_Promotion == (Promoted /\ tc.value.special = "") => PromotionRules

\* C30: common_datatype leaves the set passed to it unchanged: when the
\* call has ended the caller's set has the members it had before.
C30_SetUnchanged ==
    (Called("common_datatype") /\ tc.types0 # {}) => tc.types = tc.types0

\* the set is left alone when it holds String, no Boolean, or Boolean only
NoDrop_SetUnchanged ==
    (Called("common_datatype")
            /\ ("string" \in tc.types0 \/ "bool" \notin tc.types0
                    \/ tc.types0 = {"bool"}))
        => tc.types = tc.types0

(***************************************************************************)
(* Strings through the archive (SpecVector).                               *)
(***************************************************************************)
\* C26: for every non-empty list of strings, lists of empty strings
\* included, read_strings of what add_strings wrote returns the same list,
\* with the same number of elements.
C26_StringsRoundTrip ==
    (vc.op = "strings" /\ vc.pc = "done" /\ Len(vc.strings) >= 1)
        => /\ vc.raised = ""
           /\ Len(vc.vector) = Len(vc.strings)
           /\ vc.vector = vc.strings

\* the round trip holds for the lists that hold a non-empty string
SomeText_StringsRoundTrip ==
    (vc.op = "strings" /\ vc.pc = "done"
            /\ \E i \in 1..Len(vc.strings) : vc.strings[i] # <<>>)
        => vc.raised = "" /\ vc.vector = vc.strings

(***************************************************************************)
(* Length of the bitvectors read (SpecVector).                             *)
(***************************************************************************)
BitvectorRead ==
    /\ vc.op \in {"read_bitvector", "read_annotation"}
    /\ vc.present
    /\ vc.pc # "first"

\* C27: whenever read_bitvector(name, N) returns, and whenever a boolean
\* annotation vector for a class of N entities is returned, the vector has
\* exactly N entries; a payload that holds fewer than N bits is rejected
\* and not returned short.
C27_ExactLength ==
    BitvectorRead
        => /\ vc.pc = "done" => Len(vc.vector) = vc.num_entries
           /\ Len(vc.bits) < vc.num_entries => vc.pc # "done"

\* a payload of N bits or more is returned with exactly N entries
LongEnough_ExactLength ==
    (BitvectorRead /\ Len(vc.bits) >= vc.num_entries)
        => vc.pc = "done" /\ Len(vc.vector) = vc.num_entries

(***************************************************************************)
(* What ranges_to_csr returns (SpecVector).                                *)
(***************************************************************************)
\* ranges_to_csr was the first call of the session and has returned
RangesToCsrReturned == vc.op = "ranges" /\ vc.pc \in {"second", "done"}

\* C29: every list that ranges_to_csr returns is a well-formed CSR
\* offsets array (first entry 0, non-decreasing) and so is accepted by
\* csr_to_ranges; a range list that does not start at 0 is rejected by
\* ranges_to_csr.
C29_ReturnsWellFormedCsr ==
    /\ RangesToCsrReturned
          => /\ WellFormedCsr(vc.csr)
             /\ is_vector_csr(vc.csr)
             /\ vc.ranges0[1][1] = 0
    /\ (vc.op = "csr" /\ vc.pc = "done") => WellFormedCsr(vc.csr)

\* for a range list that starts at 0 the list returned is well formed
\* and csr_to_ranges accepts it
FromZero_ReturnsWellFormedCsr ==
    (RangesToCsrReturned /\ vc.ranges0[1][1] = 0)
        => WellFormedCsr(vc.csr) /\ is_vector_csr(vc.csr)

(***************************************************************************)
(* The bit buffers of the struct codec (SpecStruct).                       *)
(***************************************************************************)
\* C28: after every field that StructPacker appends its buffer holds
\* fewer than 8 bits, and 8 times the number of output bytes plus the
\* buffer length is the number of field bits appended so far; after every
\* field that StructUnpacker extracts its buffer holds fewer than 8 bits,
\* and 8 times the number of input bytes consumed is the number of bits
\* extracted plus the buffer length.
C28_BufferAccounting ==
    /\ Len(sc.pbuffer) < 8
    /\ 8 * Len(sc.pbytes) + Len(sc.pbuffer) = sc.pappended
    /\ Len(sc.ubuffer) < 8
    /\ 8 * (Len(sc.input) - Len(sc.ubytes)) = sc.uextracted + Len(sc.ubuffer)

C28_Witness ==
    /\ sc.upc = "unpack" /\ sc.ui = 2
    /\ Len(sc.ubuffer) = 7 /\ sc.uextracted = 1
    /\ Len(sc.pbytes) = 1 /\ sc.pappended = 8

====
